---- MODULE Spec2Model ----
(***************************************************************************)
(* Model of the RC_Main survey-imagery pipeline: filename metadata         *)
(* extraction, sequential overlap batching and nearest-time telemetry      *)
(* matching.                                                               *)
(*                                                                         *)
(* A filename is modelled by the tokens the regular expressions of the     *)
(* metadata parser look for:                                               *)
(*   cam   - the text in front of the timestamp (camera prefix)            *)
(*   form  - "sep"     : 8 digits, 'T', 6 digits, 'Z'                      *)
(*           "compact" : 14 consecutive digits                             *)
(*           "none"    : no run of timestamp digits                        *)
(*   dt    - the digit fields <<YYYY, MM, DD, hh, mm, ss>> as written      *)
(*   seg   - the start number of a '<n>s_to_<m>s' token, -1 when absent    *)
(*   frame - the number of a 'frame<n>' token, -1 when absent              *)
(* A datetime value is the tuple <<Y, M, D, h, m, s>>, ordered             *)
(* lexicographically as datetime objects are.                              *)
(***************************************************************************)
EXTENDS Integers, Sequences, FiniteSets, TLC

\* ---------------------------------------------------------------------
\* Bounds of the model
\* ---------------------------------------------------------------------
MaxFiles == 5
MaxBatchSize == 3
MaxListing == 2
MaxRows == 3
MaxImages == 2
MaxTime == 3
MaxCsvRows == 2
MaxRunImages == 1
MaxZoneSize == 50
MaxPoints == 4
MaxRounds == 2
MaxLogFiles == 3
MaxLogLines == 3
MaxEntries == 4

\* ---------------------------------------------------------------------
\* Program constants
\* ---------------------------------------------------------------------
MIN_OVERLAP_PERCENT == 0
MAX_OVERLAP_PERCENT == 100
\* sys.maxsize, the sentinel of an absent frame or segment token; only its
\* order against real frame numbers matters, so the largest integer the
\* model checker represents stands for 2^63 - 1
maxsize == 2147483647

\* None is the empty tuple, a matched piece of text the tuple of its numbers
None == <<>>

\* the outcome of a call that may raise: the value returned or the exception
Ok(v) == [exc |-> "", val |-> v]
Raise(e) == [exc |-> e, val |-> <<>>]
Raised(r) == r.exc # ""

\* datetime.max and the epoch sentinel, as datetime values
DATETIME_MAX == <<9999, 12, 31, 23, 59, 59>>
EPOCH == <<1970, 1, 1, 0, 0, 0>>

\* ---------------------------------------------------------------------
\* Generic helpers
\* ---------------------------------------------------------------------
\* order of Python tuples of integers (all keys compared have equal length)
RECURSIVE TupleLess(_, _)
TupleLess(a, b) ==
  IF a = <<>> \/ b = <<>> THEN FALSE
  ELSE IF Head(a) # Head(b) THEN Head(a) < Head(b)
  ELSE TupleLess(Tail(a), Tail(b))

Abs(x) == IF x < 0 THEN -x ELSE x

Min(a, b) == IF a < b THEN a ELSE b

\* all sequences over S of length at most n without repeated elements
RECURSIVE Listings(_, _)
Listings(S, n) ==
  IF n = 0 THEN {<<>>}
  ELSE LET shorter == Listings(S, n - 1)
           longest == {l \in shorter : Len(l) = n - 1}
           grown == {<<l, x>> \in longest \X S : \A i \in 1..Len(l) : l[i] # x}
       IN shorter \cup {Append(p[1], p[2]) : p \in grown}

Range(seq) == {seq[k] : k \in 1..Len(seq)}

\* all sequences over S of length at most n, repetitions allowed
BoundedSeq(S, n) == UNION {[1..k -> S] : k \in 0..n}

\* get_batch_files taking the record at end_index too
get_batch_files_inclusive(files, start_index, end_index) ==
  SubSeq(files, start_index + 1, Min(end_index + 1, Len(files)))

\* Python's seq[a:b] for a, b >= 0 (1-based SubSeq of the 0-based slice)
get_batch_files(files, start_index, end_index) ==
  SubSeq(files, start_index + 1, Min(end_index, Len(files)))

\* ---------------------------------------------------------------------
\* Filename metadata extractor
\* ---------------------------------------------------------------------
\* the digit fields fit \d{4}(0[1-9]|1[0-2])(0[1-9]|[1-2]\d|3[0-1])
\* ([0-1]\d|2[0-3])[0-5]\d[0-5]\d
TimestampDigitsMatch(dt) ==
  /\ dt[1] \in 0..9999
  /\ dt[2] \in 1..12
  /\ dt[3] \in 1..31
  /\ dt[4] \in 0..23
  /\ dt[5] \in 0..59
  /\ dt[6] \in 0..59

\* re.search of the pattern in the filename: the matched text (the digit
\* fields of a timestamp, the number of a frame or segment token), or the
\* default
extract_pattern(pattern, filename, default) ==
  IF pattern = "sep" /\ filename.form = "sep" /\ TimestampDigitsMatch(filename.dt)
    THEN filename.dt
  ELSE IF pattern = "compact" /\ filename.form = "compact"
          /\ TimestampDigitsMatch(filename.dt)
    THEN filename.dt
  ELSE IF pattern = "frame" /\ filename.frame >= 0 THEN <<filename.frame>>
  ELSE IF pattern = "segment" /\ filename.seg >= 0 THEN <<filename.seg>>
  ELSE default

IsLeap(y) == (y % 4 = 0 /\ y % 100 # 0) \/ y % 400 = 0

DaysInMonth(y, m) ==
  IF m = 2 THEN (IF IsLeap(y) THEN 29 ELSE 28)
  ELSE IF m \in {4, 6, 9, 11} THEN 30
  ELSE 31

\* datetime.strptime on the digit fields: the datetime value, or ValueError
\* when the fields are not a date of the calendar (year 0, day 31 of a
\* 30-day month, ...)
strptime(fields) ==
  IF /\ fields[1] \in 1..9999
     /\ fields[2] \in 1..12
     /\ fields[3] \in 1..DaysInMonth(fields[1], fields[2])
     /\ fields[4] \in 0..23
     /\ fields[5] \in 0..59
     /\ fields[6] \in 0..61
    THEN Ok(fields)
    ELSE Raise("ValueError")

\* image_batch/file_metadata_parser.py
ib_parse_unix_timestamp(filename) ==
  strptime(extract_pattern("sep", filename, DATETIME_MAX))

ib_parse_frame_number(filename) ==
  LET frame_number_str == extract_pattern("frame", filename, None)
  IN IF frame_number_str = None THEN maxsize ELSE frame_number_str[1]

\* start_time = int(segment_str[:segment_str.find('s_to_')][:-1]): the start
\* digits without their last digit; int('') raises for a one-digit start
ib_parse_segment_start(filename) ==
  LET segment_str == extract_pattern("segment", filename, None)
  IN IF segment_str = None THEN Ok(maxsize)
     ELSE IF segment_str[1] < 10 THEN Raise("ValueError")
     ELSE Ok(segment_str[1] \div 10)

\* modules/file_metadata_parser.py
parse_unix_timestamp(filename) ==
  strptime(extract_pattern("sep", filename, EPOCH))

parse_modified_unix_timestamp(filename) ==
  strptime(extract_pattern("compact", filename, EPOCH))

parse_timestamp(filename) ==
  LET normal_timestamp == parse_unix_timestamp(filename)
  IN IF Raised(normal_timestamp) THEN normal_timestamp
     ELSE IF normal_timestamp.val = EPOCH
       THEN parse_modified_unix_timestamp(filename)
       ELSE normal_timestamp

parse_frame_number(filename) ==
  LET frame_number_str == extract_pattern("frame", filename, None)
  IN IF frame_number_str = None THEN maxsize ELSE frame_number_str[1]

\* list.sort(key=...) on a list of <<key, item>> pairs: stable, an item goes
\* behind every item whose key is not greater
RECURSIVE list_sort(_)
list_sort(keyed) ==
  IF keyed = <<>> THEN <<>>
  ELSE LET n == Len(keyed)
           front == list_sort(SubSeq(keyed, 1, n - 1))
           x == keyed[n]
           pos == Cardinality({k \in 1..(n - 1) : ~TupleLess(x[1], front[k][1])})
       IN SubSeq(front, 1, pos) \o <<x>> \o SubSeq(front, pos + 1, n - 1)

\* the keys are computed first; an exception of a key function leaves sort
SortByKey(files_, keys) ==
  IF \E k \in 1..Len(keys) : Raised(keys[k]) THEN Raise("ValueError")
  ELSE LET sorted == list_sort([k \in 1..Len(files_) |-> <<keys[k].val, files_[k]>>])
       IN Ok([k \in 1..Len(files_) |-> sorted[k][2]])

\* the key of image_batch sort_files:
\* (parse_unix_timestamp(x), parse_segment(x)[0], parse_frame_number(x))
sort_files_key(x) ==
  LET ts == ib_parse_unix_timestamp(x)
      seg == ib_parse_segment_start(x)
  IN IF Raised(ts) THEN ts
     ELSE IF Raised(seg) THEN seg
     ELSE Ok(ts.val \o <<seg.val, ib_parse_frame_number(x)>>)

sort_files(files_) ==
  SortByKey(files_, [k \in 1..Len(files_) |-> sort_files_key(files_[k])])

\* the key of __get_component_file_name:
\* (parse_timestamp(x), parse_frame_number(x))
component_sort_key(x) ==
  LET ts == parse_timestamp(x)
  IN IF Raised(ts) THEN ts
     ELSE Ok(ts.val \o <<parse_frame_number(x)>>)

component_sort(files_) ==
  SortByKey(files_, [k \in 1..Len(files_) |-> component_sort_key(files_[k])])

\* ---------------------------------------------------------------------
\* Sequential overlap batcher (image_batch/batch_directory.py)
\* ---------------------------------------------------------------------
\* calculate_batches without the batch for the remainder
calculate_batches_floor(files_, batch_size_) ==
  Len(files_) \div batch_size_

calculate_batches(files_, batch_size_) ==
  LET num == Len(files_) \div batch_size_
  IN IF Len(files_) % batch_size_ # 0 THEN num + 1 ELSE num

\* the overlap size without the division by 100
calculate_overlap_size_unscaled(batch_size_, overlap_percent_) ==
  batch_size_ * overlap_percent_

\* int(batch_size * overlap_percent / 100)
calculate_overlap_size(batch_size_, overlap_percent_) ==
  (batch_size_ * overlap_percent_) \div 100

\* calculate_indices starting every batch at its base range
calculate_indices_no_overlap(index_, batch_size_, overlap_size_, files_) ==
  <<index_ * batch_size_, Min((index_ + 1) * batch_size_, Len(files_) - 1)>>

\* calculate_indices ending a batch at len(files)
calculate_indices_to_len(index_, batch_size_, overlap_size_, files_) ==
  <<(index_ * batch_size_) - (IF index_ > 0 THEN overlap_size_ ELSE 0),
    Min((index_ + 1) * batch_size_, Len(files_))>>

calculate_indices(index_, batch_size_, overlap_size_, files_) ==
  LET start_index == (index_ * batch_size_)
                       - (IF index_ > 0 THEN overlap_size_ ELSE 0)
      end_index == Min((index_ + 1) * batch_size_, Len(files_) - 1)
  IN <<start_index, end_index>>

\* Python's files[ix]: IndexError outside the list, a negative index counts
\* from the end
list_item(files_, ix) ==
  IF ix \in 0..(Len(files_) - 1) THEN Ok(files_[ix + 1])
  ELSE IF ix \in (0 - Len(files_))..(-1) THEN Ok(files_[ix + Len(files_) + 1])
  ELSE Raise("IndexError")

get_file_metadata(files_, start_index, end_index) ==
  LET start_file == list_item(files_, start_index)
      end_file == list_item(files_, end_index)
  IN IF Raised(start_file) THEN start_file
     ELSE IF Raised(ib_parse_unix_timestamp(start_file.val))
       THEN ib_parse_unix_timestamp(start_file.val)
     ELSE IF Raised(end_file) THEN end_file
     ELSE IF Raised(ib_parse_unix_timestamp(end_file.val))
       THEN ib_parse_unix_timestamp(end_file.val)
     ELSE Ok(<<ib_parse_unix_timestamp(start_file.val).val,
               ib_parse_unix_timestamp(end_file.val).val>>)

\* the text of a camera name, in pieces: 'lower' ends 'camlower'
CamText(cam) ==
  IF cam = "camlower" THEN << <<"cam">>, <<"lower">> >>
  ELSE IF cam = "cammid" THEN << <<"cam">>, <<"mid">> >>
  ELSE << <<cam>> >>

\* a filename as text: its pieces in the order they are written
FileText(filename) ==
  CamText(filename.cam)
    \o << <<"time", filename.form, filename.dt>>, <<"segment", filename.seg>>,
          <<"frame", filename.frame>>, <<".png">> >>

\* the line of the flight log for an image: Name;X (East);Y (North);...
FlightLogEntry(filename) == FileText(filename) \o << <<";">>, <<"fields">> >>

\* Python's `a in b` for two texts
IsSubstring(a, b) ==
  \E s \in 0..(Len(b) - Len(a)) : SubSeq(b, s + 1, s + Len(a)) = a

\* lines 120-123: the first file of the list that is in the line, 0 for none
first_file_in(files_, line) ==
  LET hits == {k \in 1..Len(files_) : IsSubstring(FileText(files_[k]), line)}
  IN IF hits = {} THEN 0 ELSE CHOOSE k \in hits : \A h \in hits : k <= h

\* lines 115-123: the dictionary after the first n lines of the file; a file
\* that is no key has None
RECURSIVE flight_log_info_after(_, _, _)
flight_log_info_after(lines, files_, n) ==
  IF n = 0 THEN [f \in Range(files_) |-> None]
  ELSE LET k == first_file_in(files_, lines[n])
       IN IF k = 0 THEN flight_log_info_after(lines, files_, n - 1)
          ELSE [flight_log_info_after(lines, files_, n - 1)
                  EXCEPT ![files_[k]] = lines[n]]

\* lines 108-127
get_flight_log_info(flight_log_path_, files_) ==
  IF ~flight_log_path_.given THEN None
  ELSE <<flight_log_info_after(flight_log_path_.lines, files_,
                               Len(flight_log_path_.lines))>>

\* lines 165-173: the flight_log.txt of a batch
batch_flight_log(flight_log_info_, batch_files_) ==
  IF flight_log_info_ = None THEN None
  ELSE LET members == SelectSeq(batch_files_, LAMBDA f : flight_log_info_[1][f] # None)
       IN <<[k \in 1..Len(members) |-> flight_log_info_[1][members[k]]]>>

\* ---------------------------------------------------------------------
\* State
\* ---------------------------------------------------------------------
VARIABLES
  \* batch_files of image_batch/batch_directory.py
  b_pc,             \* "idle", "call", "loop", "returned", "raised"
  files,            \* the list of filenames (sorted in place by sort_files)
  batch_size,
  overlap_percent,
  num_batches,
  overlap_size,
  i,                \* the loop variable of batch_files
  batches,          \* what each iteration produced
  flight_log_file,  \* the flight log given to batch_files: given, isfile, lines
  flight_log_info,  \* None or the dictionary of get_flight_log_info, boxed
  batch_flight_logs, \* the flight_log.txt of each batch: None or its lines, boxed
  batch_dirs,       \* the folders batch_1, batch_2, ... on disk
  \* the metadata extractor and the orderings built on it
  m_pc,             \* "idle", "call", "returned", "raised"
  listing,          \* filenames of a folder, in os.listdir order
  m_out,            \* the operation applied and its result
  \* GeoreferenceImages.__estimate_location
  g_pc,             \* "idle", "estimate", "returned", "raised"
  data_rows,        \* the telemetry rows of __read_csv_data, in file order
  image_data,       \* the image dicts of __read_image_filenames
  input_type,
  image_idx,        \* number of images the loop has gone through
  utm_zone,         \* self.utm_zone
  counts,           \* the match counters of __estimate_location
  \* main and GeoreferenceImages.run
  p_pc,             \* "idle", "validate", "run", "running", "finish", "done", "returned"
  enabled,          \* the enabled modules, in registration order
  index,            \* the loop variable of main
  events,           \* what main has done so far, in order
  csv_header,       \* the header row of the telemetry log
  csv_rows,         \* its data rows, each a list of cells
  fs,               \* the flight_log.txt files on disk, by path
  dirs,             \* the folders of batches on disk: None or the subfolders, boxed
  queued,           \* the folders RealityCaptureAlignment.run queued
  \* the overlap size of a zone in __create_geographic_zones
  o_pc,             \* "idle", "call", "returned"
  o_len,            \* len(zone_i_gdf)
  o_percent,        \* overlap_percent
  o_size,           \* overlap_size
  \* BatchDirectory.run of modules/image_batcher
  z_pc,             \* "idle", "validate", "read", "loop", "proposed", "returned",
                    \* "failed", "raised"
  flight_log,       \* the rows of the flight log: filename, x, y
  num_zones,        \* batch_num_zones
  zone_overlap,     \* overlap_percent of run
  kmeans_fit,       \* the labels KMeans with random_state 42 gives the points
  proposals,        \* overlap and base zones of each round of the loop
  final_zones,      \* the zones of the last round
  rounds,           \* rounds of the loop that did not end in an accept
  zone_folders,     \* the zone_<n> folders written
  out_dir           \* batched_images_by_zone exists

batch_vars == <<b_pc, files, batch_size, overlap_percent, num_batches,
                overlap_size, i, batches, flight_log_file, flight_log_info,
                batch_flight_logs, batch_dirs>>
meta_vars == <<m_pc, listing, m_out>>
geo_vars == <<g_pc, data_rows, image_data, input_type, image_idx, utm_zone,
              counts>>
main_vars == <<p_pc, enabled, index, events, csv_header, csv_rows, fs, dirs, queued>>
size_vars == <<o_pc, o_len, o_percent, o_size>>
zone_vars == <<z_pc, flight_log, num_zones, zone_overlap, kmeans_fit, proposals,
               final_zones, rounds, zone_folders, out_dir>>
tool_vars == <<size_vars, zone_vars>>
zone_frame == <<batch_vars, meta_vars, geo_vars, main_vars, size_vars>>
ext_vars == <<main_vars, tool_vars>>
vars == <<batch_vars, meta_vars, geo_vars, ext_vars>>

\* ---------------------------------------------------------------------
\* Inputs
\* ---------------------------------------------------------------------
FN(cam, form, dt, seg, frame) ==
  [cam |-> cam, form |-> form, dt |-> dt, seg |-> seg, frame |-> frame]

NoDigits == <<0, 0, 0, 0, 0, 0>>
T1 == <<2023, 10, 23, 21, 29, 55>>
T2 == <<2023, 10, 23, 21, 29, 56>>
Feb31 == <<2023, 2, 31, 12, 0, 0>>
Month13 == <<2023, 13, 1, 12, 0, 0>>

\* the folder contents batch_files is run on: frames of the same second
\* from two camera heads, a frame without frame token, a name without
\* timestamp, a later frame, a name whose digits are no calendar date and a
\* frame of a video segment
BatchFileNames ==
  { FN("camlower", "sep", T1, -1, 1),
    FN("cammid", "sep", T1, -1, 1),
    FN("camlower", "sep", T1, -1, -1),
    FN("P001", "none", NoDigits, -1, -1),
    FN("camlower", "sep", T2, -1, 0),
    FN("camlower", "sep", Feb31, -1, 1),
    FN("camlower", "sep", T1, 10, 2) }

\* the names without a parse error, in one fixed order
PlainFiles ==
  << FN("camlower", "sep", T1, -1, 1),
     FN("cammid", "sep", T1, -1, 1),
     FN("camlower", "sep", T1, -1, -1),
     FN("P001", "none", NoDigits, -1, -1),
     FN("camlower", "sep", T2, -1, 0),
     FN("camlower", "sep", T1, 10, 2) >>

OverlapPercents == {-1, 0, 20, 50, 100, 101}

\* the names the metadata extractor is run on: both timestamp grammars with
\* digits that are a date, that fit the pattern without being a date and
\* that do not fit the pattern, with and without segment and frame token,
\* and names without timestamp
MetaFileNames ==
  {FN("camlower", form, dt, seg, frame) :
     form \in {"sep", "compact"}, dt \in {T1, T2, Feb31, Month13},
     seg \in {-1, 5}, frame \in {-1, 1}}
  \cup {FN("P001", "none", NoDigits, -1, frame) : frame \in {-1, 1}}

\* flight_log_path=None, the default of batch_files
NoLog == [given |-> FALSE, isfile |-> FALSE, lines |-> <<>>]

BatchIdle ==
  /\ b_pc = "idle"
  /\ files = <<>>
  /\ batch_size = 0
  /\ overlap_percent = 0
  /\ num_batches = 0
  /\ overlap_size = 0
  /\ i = 0
  /\ batches = <<>>
  /\ flight_log_file = NoLog
  /\ flight_log_info = None
  /\ batch_flight_logs = <<>>
  /\ batch_dirs = <<>>

NoCall == [op |-> "", arg |-> 0, res |-> Ok(<<>>)]

\* a telemetry row at second t with every field filled, and one whose
\* position, depth, pitch and roll columns were empty; the heading tells the
\* rows apart; the vehicle moves east by four degrees a second, across the
\* meridians where the grid zone changes
FullRow(t) ==
  [TIME |-> t, LAT |-> <<41>>, LONG |-> <<4 * t - 70>>, DEPTH |-> <<0 - (t + 1)>>,
   HEADING |-> <<10 * t>>, PITCH |-> <<5>>, ROLL |-> <<t>>]

EmptyRow(t) ==
  [TIME |-> t, LAT |-> None, LONG |-> None, DEPTH |-> None,
   HEADING |-> <<10 * t + 1>>, PITCH |-> None, ROLL |-> None]

\* the rows of a log: a full row for every second and one row with empty
\* cells
TelemetryRows == {FullRow(t) : t \in 0..MaxTime} \cup {EmptyRow(0)}

\* an image dict of __read_image_filenames: the filename (its leading text
\* and its timestamp) and the timestamp parsed from it, in seconds; the
\* camera heads take turns
ImageDicts ==
  {[FILENAME |-> [cam |-> IF t % 2 = 0 THEN "cammid" ELSE "P", stamp |-> t],
    TIMESTAMP |-> t] : t \in 0..MaxTime}

InputTypes == {"WCA2025", "WCA"}

NoCounts ==
  [matches_made |-> 0, exact_matches |-> 0, matches_1_4 |-> 0,
   matches_5_15 |-> 0, matches_gt15 |-> 0, no_matches |-> 0]

GeoIdle ==
  /\ g_pc = "idle"
  /\ data_rows = <<>>
  /\ image_data = <<>>
  /\ input_type = ""
  /\ image_idx = 0
  /\ utm_zone = None
  /\ counts = NoCounts

MetaIdle ==
  /\ m_pc = "idle"
  /\ listing = <<>>
  /\ m_out = NoCall

\* the places a flight_log.txt is written to or looked for
FlightLogPaths ==
  {"geo_input_image_dir/flight_log.txt", "output_dir/raw_images/flight_log.txt",
   "output_dir/flight_log.txt"}

\* a path at which there is no file, and a disk without flight logs
NoFile == [exists |-> FALSE, written_by |-> "", lines |-> <<>>]
NoFiles == [path \in FlightLogPaths |-> NoFile]

\* BatchDirectory.run line 228: where the zone folders are made
batch_output_dir == "output_dir/batched_images_by_zone"

\* RealityCaptureAlignment.run line 326: where batch folders are looked for
rc_batch_directory == "output_dir/batched_images"

BatchDirectories == {batch_output_dir, rc_batch_directory}

\* a disk without folders of batches
NoDirs == [d \in BatchDirectories |-> None]

MainIdle ==
  /\ p_pc = "idle"
  /\ enabled = <<>>
  /\ index = 0
  /\ events = <<>>
  /\ csv_header = <<>>
  /\ csv_rows = <<>>
  /\ fs = NoFiles
  /\ dirs = NoDirs
  /\ queued = {}

SizeIdle ==
  /\ o_pc = "idle"
  /\ o_len = 0
  /\ o_percent = 0
  /\ o_size = 0

ZoneIdle ==
  /\ z_pc = "idle"
  /\ flight_log = <<>>
  /\ num_zones = 0
  /\ zone_overlap = 0
  /\ kmeans_fit = <<>>
  /\ proposals = <<>>
  /\ final_zones = <<>>
  /\ rounds = 0
  /\ zone_folders = <<>>
  /\ out_dir = FALSE

ToolIdle == SizeIdle /\ ZoneIdle

ExtIdle == MainIdle /\ ToolIdle

\* ---------------------------------------------------------------------
\* batch_files
\* ---------------------------------------------------------------------
\* the arguments of a call of batch_files: every listing of the folder with
\* a few percentages, and a plain folder with every percentage
InitBatch ==
  /\ MetaIdle
  /\ GeoIdle
  /\ ExtIdle
  /\ b_pc = "call"
  /\ batch_size \in 0..MaxBatchSize
  /\ \/ /\ files \in Listings(BatchFileNames, MaxFiles)
        /\ overlap_percent \in OverlapPercents
     \/ /\ files \in {SubSeq(PlainFiles, 1, n) : n \in 0..Min(MaxFiles, Len(PlainFiles))}
        /\ overlap_percent \in (MIN_OVERLAP_PERCENT - 1)..(MAX_OVERLAP_PERCENT + 1)
  /\ num_batches = 0
  /\ overlap_size = 0
  /\ i = 0
  /\ batches = <<>>
  /\ flight_log_file = NoLog
  /\ flight_log_info = None
  /\ batch_flight_logs = <<>>
  /\ batch_dirs = <<>>

\* the checks of batch_files without the one of the overlap percentage
batch_files_invalid_any_overlap(files_, batch_size_, overlap_percent_, flight_log_file_) ==
  \/ files_ = <<>>
  \/ batch_size_ <= 0
  \/ (flight_log_file_.given /\ ~flight_log_file_.isfile)

\* lines 131-138: the arguments for which batch_files raises ValueError
batch_files_invalid(files_, batch_size_, overlap_percent_, flight_log_file_) ==
  \/ files_ = <<>>
  \/ batch_size_ <= 0
  \/ overlap_percent_ < MIN_OVERLAP_PERCENT
  \/ overlap_percent_ > MAX_OVERLAP_PERCENT
  \/ (flight_log_file_.given /\ ~flight_log_file_.isfile)

\* a batch folder an earlier run left: an image and its flight_log.txt
OldImage == FN("camlower", "sep", T2, -1, 0)

OldBatchDir ==
  [files |-> <<OldImage>>, flight_log |-> <<<<FlightLogEntry(OldImage)>>>>,
   made_by |-> "earlier run", declined |-> FALSE]

\* create_batch_folder (lines 89-105) for batch number: a folder that
\* exists is left as it is when the operator declines, else it is removed;
\* the new folder gets the files
create_batch_folder(batch_dirs_, number, overwrite, files_) ==
  IF number <= Len(batch_dirs_) /\ ~overwrite
    THEN [batch_dirs_[number] EXCEPT !.declined = TRUE]
    ELSE [files |-> files_, flight_log |-> None, made_by |-> "this run",
          declined |-> FALSE]

\* lines 165-173: the flight_log.txt is opened for writing in the folder
write_batch_flight_log(folder, log) ==
  IF log = None THEN folder ELSE [folder EXCEPT !.flight_log = log]

\* lines 131-151: validation, sort, number of batches and overlap size
batch_files_begin ==
  /\ b_pc = "call"
  /\ IF batch_files_invalid(files, batch_size, overlap_percent, flight_log_file)
       THEN /\ b_pc' = "raised"
            /\ UNCHANGED <<files, num_batches, overlap_size, flight_log_info>>
       ELSE LET sorted == sort_files(files)
            IN IF Raised(sorted)
                 THEN /\ b_pc' = "raised"
                      /\ UNCHANGED <<files, num_batches, overlap_size,
                                     flight_log_info>>
                 ELSE /\ b_pc' = "loop"
                      /\ files' = sorted.val
                      /\ flight_log_info' =
                           get_flight_log_info(flight_log_file, sorted.val)
                      /\ num_batches' = calculate_batches(sorted.val, batch_size)
                      /\ overlap_size' =
                           calculate_overlap_size(batch_size, overlap_percent)
  /\ UNCHANGED <<batch_size, overlap_percent, i, batches, flight_log_file,
                 batch_flight_logs, batch_dirs, meta_vars, geo_vars, ext_vars>>

\* lines 153-176: one iteration of the loop over range(num_batches)
batch_files_iter ==
  /\ b_pc = "loop"
  /\ i < num_batches
  /\ LET indices == calculate_indices(i, batch_size, overlap_size, files)
         metadata == get_file_metadata(files, indices[1], indices[2])
     IN IF Raised(metadata)
          THEN /\ b_pc' = "raised"
               /\ UNCHANGED <<i, batches, batch_flight_logs, batch_dirs>>
          ELSE /\ \E overwrite \in (IF i + 1 <= Len(batch_dirs) THEN BOOLEAN ELSE {TRUE}) :
                    LET batch_files_ == get_batch_files(files, indices[1], indices[2])
                        folder == write_batch_flight_log(
                                    create_batch_folder(batch_dirs, i + 1, overwrite,
                                                        batch_files_),
                                    batch_flight_log(flight_log_info, batch_files_))
                    IN batch_dirs' = IF i + 1 <= Len(batch_dirs)
                                       THEN [batch_dirs EXCEPT ![i + 1] = folder]
                                       ELSE Append(batch_dirs, folder)
               /\ batches' = Append(batches,
                    [batch_files |-> get_batch_files(files, indices[1], indices[2]),
                     start_index |-> indices[1],
                     end_index |-> indices[2],
                     start_timestamp |-> metadata.val[1],
                     end_timestamp |-> metadata.val[2]])
               /\ batch_flight_logs' = Append(batch_flight_logs,
                    batch_flight_log(flight_log_info,
                      get_batch_files(files, indices[1], indices[2])))
               /\ i' = i + 1
               /\ UNCHANGED b_pc
  /\ UNCHANGED <<files, batch_size, overlap_percent, num_batches, overlap_size,
                 flight_log_file, flight_log_info, meta_vars, geo_vars, ext_vars>>

\* line 178
batch_files_return ==
  /\ b_pc = "loop"
  /\ i >= num_batches
  /\ b_pc' = "returned"
  /\ UNCHANGED <<files, batch_size, overlap_percent, num_batches, overlap_size,
                 i, batches, flight_log_file, flight_log_info, batch_flight_logs,
                 batch_dirs, meta_vars, geo_vars, ext_vars>>

NextBatch == batch_files_begin \/ batch_files_iter \/ batch_files_return

SpecBatch == InitBatch /\ [][NextBatch]_vars

\* batch_files with a flight log: a folder of frames of two camera heads, of
\* a camera whose name ends the name of another, and a later frame; the log
\* has the line of some of these images, in any order, or is not a file
LogFileNames ==
  { FN("camlower", "sep", T1, -1, 1),
    FN("lower", "sep", T1, -1, 1),
    FN("cammid", "sep", T1, -1, 1),
    FN("camlower", "sep", T2, -1, 0) }

LogBatchSizes == {0, 1, 2}

LogOverlapPercents == {0, 50, 101}

FlightLogFile(names) ==
  [given |-> TRUE, isfile |-> TRUE,
   lines |-> [k \in 1..Len(names) |-> FlightLogEntry(names[k])]]

InitLog ==
  /\ MetaIdle
  /\ GeoIdle
  /\ ExtIdle
  /\ b_pc = "call"
  /\ batch_size \in LogBatchSizes
  /\ files \in Listings(LogFileNames, MaxLogFiles)
  /\ overlap_percent \in LogOverlapPercents
  /\ flight_log_file \in
       {[given |-> TRUE, isfile |-> FALSE, lines |-> <<>>]}
         \cup {FlightLogFile(names) : names \in Listings(LogFileNames, MaxLogLines)}
  /\ flight_log_info = None
  /\ batch_flight_logs = <<>>
  /\ batch_dirs \in {<<>>, <<OldBatchDir>>}
  /\ num_batches = 0
  /\ overlap_size = 0
  /\ i = 0
  /\ batches = <<>>

SpecLog == InitLog /\ [][NextBatch]_vars

\* ---------------------------------------------------------------------
\* Metadata extractor and orderings
\* ---------------------------------------------------------------------
InitMeta ==
  /\ BatchIdle
  /\ GeoIdle
  /\ ExtIdle
  /\ m_pc = "call"
  /\ listing \in Listings(MetaFileNames, MaxListing)
  /\ m_out = NoCall

Returns(op, arg, res) ==
  /\ m_out' = [op |-> op, arg |-> arg, res |-> res]
  /\ m_pc' = IF Raised(res) THEN "raised" ELSE "returned"
  /\ UNCHANGED <<listing, batch_vars, geo_vars, ext_vars>>

\* image_batch parse_unix_timestamp on a name of the folder
ib_parse_unix_timestamp_call ==
  /\ m_pc = "call"
  /\ \E k \in 1..Len(listing) :
       Returns("ib_parse_unix_timestamp", k, ib_parse_unix_timestamp(listing[k]))

\* modules parse_timestamp on a name of the folder
parse_timestamp_call ==
  /\ m_pc = "call"
  /\ \E k \in 1..Len(listing) :
       Returns("parse_timestamp", k, parse_timestamp(listing[k]))

\* image_batch sort_files on the folder
sort_files_call ==
  /\ m_pc = "call"
  /\ Returns("sort_files", 0, sort_files(listing))

\* __get_component_file_name on the folder: the sorted list, its first and
\* its last file and their timestamp texts make the component name
get_component_file_name(files_) ==
  LET sorted == component_sort(files_)
  IN IF Raised(sorted) THEN sorted
     ELSE IF Raised(list_item(sorted.val, 0)) THEN list_item(sorted.val, 0)
     ELSE Ok([files |-> sorted.val,
              start_file |-> list_item(sorted.val, 0).val,
              end_file |-> list_item(sorted.val, -1).val])

get_component_file_name_call ==
  /\ m_pc = "call"
  /\ Returns("get_component_file_name", 0, get_component_file_name(listing))

NextMeta ==
  \/ ib_parse_unix_timestamp_call
  \/ parse_timestamp_call
  \/ sort_files_call
  \/ get_component_file_name_call

SpecMeta == InitMeta /\ [][NextMeta]_vars

\* ---------------------------------------------------------------------
\* get_image_files (image_batch/batch_directory.py)
\* ---------------------------------------------------------------------
\* line 22: the extensions of images
ImageExtensions == {".png", ".jpg", ".jpeg"}

\* the entries of an input directory, as os.path.splitext splits them
DirEntries ==
  {[name |-> "a", ext |-> ".png"], [name |-> "b", ext |-> ".jpg"],
   [name |-> "c", ext |-> ".txt"], [name |-> "d", ext |-> ".csv"],
   [name |-> "e", ext |-> ".jpeg"]}

\* list.remove(x): the list without the first item equal to x
list_remove(files_, x) ==
  LET first == CHOOSE k \in 1..Len(files_) :
                 files_[k] = x /\ \A j \in 1..(k - 1) : files_[j] # x
  IN SubSeq(files_, 1, first - 1) \o SubSeq(files_, first + 1, Len(files_))

\* lines 19-24: the for loop over the list that is being changed; the
\* iterator goes by position, k is the (1-based) position it is at
RECURSIVE get_image_files_from(_, _)
get_image_files_from(files_, k) ==
  IF k > Len(files_) THEN files_
  ELSE IF files_[k].ext \notin ImageExtensions
    THEN get_image_files_from(list_remove(files_, files_[k]), k + 1)
    ELSE get_image_files_from(files_, k + 1)

\* lines 13-26
get_image_files(input_dir) == get_image_files_from(input_dir, 1)

InitFiles ==
  /\ BatchIdle
  /\ GeoIdle
  /\ ExtIdle
  /\ m_pc = "call"
  /\ listing \in Listings(DirEntries, MaxEntries)
  /\ m_out = NoCall

get_image_files_call ==
  /\ m_pc = "call"
  /\ Returns("get_image_files", 0, Ok(get_image_files(listing)))

NextFiles == get_image_files_call

SpecFiles == InitFiles /\ [][NextFiles]_vars

\* ---------------------------------------------------------------------
\* Temporal matcher (modules/georeference/georeference_images.py)
\* ---------------------------------------------------------------------
\* a minimum search that keeps the last of several smallest keys
RECURSIVE python_min_last(_, _, _)
python_min_last(keys, best, k) ==
  IF k > Len(keys) THEN best
  ELSE python_min_last(keys, IF keys[k] <= keys[best] THEN k ELSE best, k + 1)

\* Python's min(rows, key=...) with the keys given: the first item whose key
\* no other key is below (the item in hand is replaced only by a smaller one)
RECURSIVE python_min(_, _, _)
python_min(keys, best, k) ==
  IF k > Len(keys) THEN best
  ELSE python_min(keys, IF keys[k] < keys[best] THEN k ELSE best, k + 1)

\* utm.from_latlon: easting and northing of the point in its own zone, the
\* zone number from the longitude and the band from the latitude;
\* OutOfRangeError outside the grid
utm_from_latlon(lat, lon) ==
  IF lat < -80 \/ lat > 84 \/ lon < -180 \/ lon >= 180
    THEN Raise("OutOfRangeError")
    ELSE LET zone_number == ((lon + 180) \div 6) + 1
             zone_letter == (lat + 80) \div 8
         IN Ok([easting |-> <<"E", lat, lon, zone_number>>,
                northing |-> <<"N", lat, lon, zone_number>>,
                zone |-> <<zone_number, zone_letter>>])

\* __convert_to_utm: <<easting, northing, self.utm_zone afterwards>>
convert_to_utm(lat, lon, zone) ==
  IF lat = None \/ lat = <<0>> \/ lon = None \/ lon = <<0>>
    THEN <<None, None, zone>>
    ELSE LET utm_values == utm_from_latlon(lat[1], lon[1])
         IN IF Raised(utm_values) THEN <<None, None, zone>>
            ELSE <<utm_values.val.easting, utm_values.val.northing,
                   IF zone = None THEN utm_values.val.zone ELSE zone>>

\* lines 160-167: the band counter a time difference goes to
count_band(c, diff_sec) ==
  IF diff_sec = 0 THEN [c EXCEPT !.exact_matches = @ + 1]
  ELSE IF 1 <= diff_sec /\ diff_sec <= 4 THEN [c EXCEPT !.matches_1_4 = @ + 1]
  ELSE IF 5 <= diff_sec /\ diff_sec <= 15 THEN [c EXCEPT !.matches_5_15 = @ + 1]
  ELSE IF diff_sec > 15 THEN [c EXCEPT !.matches_gt15 = @ + 1]
  ELSE c

\* lines 172-190: the pitch written for a matched image; None + number
\* raises TypeError
matched_pitch(filename, vehicle_pitch, input_type_) ==
  IF vehicle_pitch = None THEN Raise("TypeError")
  ELSE IF input_type_ = "WCA2025"
    THEN LET camera_angle == IF filename.cam = "camlower" THEN 0
                             ELSE IF filename.cam = "cammid" THEN -10
                             ELSE IF filename.cam = "camupper" THEN -45
                             ELSE 0
         IN Ok(<<vehicle_pitch[1] + camera_angle + 90>>)
    ELSE LET base_pitch == IF filename.cam = "P" THEN 90 ELSE 30
         IN Ok(<<vehicle_pitch[1] + base_pitch>>)

\* lines 202-212: the pitch written when there is no telemetry
default_pitch(filename, input_type_) ==
  IF input_type_ = "WCA2025"
    THEN IF filename.cam = "camlower" THEN <<0 + 90>>
         ELSE IF filename.cam = "cammid" THEN <<-10 + 90>>
         ELSE IF filename.cam = "camupper" THEN <<-45 + 90>>
         ELSE None
    ELSE IF filename.cam = "P" THEN <<40>> ELSE None

\* the fields image.update(...) sets
image_update(image, lat, lon, utm_x, utm_y, alt, heading, pitch, roll) ==
  [FILENAME |-> image.FILENAME, TIMESTAMP |-> image.TIMESTAMP,
   LAT |-> lat, LONG |-> lon, UTM_X |-> utm_x, UTM_Y |-> utm_y,
   ALTITUDE_EST |-> alt, HEADING |-> heading, PITCH |-> pitch, ROLL |-> roll]

\* the state in which run calls __estimate_location: the rows of the log in
\* file order and the images with a timestamp
InitGeo ==
  /\ BatchIdle
  /\ MetaIdle
  /\ ExtIdle
  /\ g_pc = "estimate"
  /\ data_rows \in BoundedSeq(TelemetryRows, MaxRows)
  /\ image_data \in {l \in Listings(ImageDicts, MaxImages) : Len(l) >= 1}
  /\ input_type \in InputTypes
  /\ image_idx = 0
  /\ utm_zone = None
  /\ counts = NoCounts

\* lines 154-220: the loop body for the next image
estimate_location_step ==
  /\ g_pc = "estimate"
  /\ image_idx < Len(image_data)
  /\ LET image == image_data[image_idx + 1]
     IN IF data_rows # <<>>
          THEN LET keys == [k \in 1..Len(data_rows) |->
                              Abs(data_rows[k].TIME - image.TIMESTAMP)]
                   closest_match == data_rows[python_min(keys, 1, 2)]
                   diff_sec == Abs(closest_match.TIME - image.TIMESTAMP)
                   utm == convert_to_utm(closest_match.LAT, closest_match.LONG,
                                         utm_zone)
                   final_pitch == matched_pitch(image.FILENAME,
                                                closest_match.PITCH, input_type)
               IN /\ utm_zone' = utm[3]
                  /\ IF Raised(final_pitch)
                       THEN /\ g_pc' = "raised"
                            /\ counts' = count_band(counts, diff_sec)
                            /\ UNCHANGED <<image_data, image_idx>>
                       ELSE /\ image_data' =
                                 [image_data EXCEPT ![image_idx + 1] =
                                    image_update(image, closest_match.LAT,
                                      closest_match.LONG, utm[1], utm[2],
                                      closest_match.DEPTH, closest_match.HEADING,
                                      final_pitch.val, closest_match.ROLL)]
                            /\ counts' = [count_band(counts, diff_sec)
                                            EXCEPT !.matches_made = @ + 1]
                            /\ image_idx' = image_idx + 1
                            /\ UNCHANGED g_pc
          ELSE /\ image_data' =
                    [image_data EXCEPT ![image_idx + 1] =
                       image_update(image, None, None, None, None, None, None,
                                    default_pitch(image.FILENAME, input_type),
                                    None)]
               /\ counts' = [counts EXCEPT !.no_matches = @ + 1]
               /\ image_idx' = image_idx + 1
               /\ UNCHANGED <<g_pc, utm_zone>>
  /\ UNCHANGED <<data_rows, input_type, batch_vars, meta_vars, ext_vars>>

\* lines 221-226: the loop is over, the counters are printed
estimate_location_return ==
  /\ g_pc = "estimate"
  /\ image_idx >= Len(image_data)
  /\ g_pc' = "returned"
  /\ UNCHANGED <<data_rows, image_data, input_type, image_idx, utm_zone, counts,
                 batch_vars, meta_vars, ext_vars>>

NextGeo == estimate_location_step \/ estimate_location_return

SpecGeo == InitGeo /\ [][NextGeo]_vars

\* ---------------------------------------------------------------------
\* The telemetry loader, GeoreferenceImages.run and the loop of main
\* ---------------------------------------------------------------------
\* A numeric cell of the log is the sequence of its characters; the
\* Timestamp cell is modelled by its form ("iso" for text of the shape
\* %Y-%m-%dT%H:%M:%SZ) and the digit fields as written. The samples of the
\* model are all of one day, and a time is the second of that day.
DigitChars == <<"0", "1", "2", "3", "4", "5", "6", "7", "8", "9">>

IsDigit(c) == \E d \in 1..10 : DigitChars[d] = c

DigitValue(c) == (CHOOSE d \in 1..10 : DigitChars[d] = c) - 1

RECURSIVE DecimalValue(_)
DecimalValue(text) ==
  IF text = <<>> THEN 0
  ELSE 10 * DecimalValue(SubSeq(text, 1, Len(text) - 1)) + DigitValue(text[Len(text)])

\* float(text) for the decimal integers the model writes: the number, or
\* ValueError for text that is not a number (the empty text too)
float(text) ==
  LET negative == text # <<>> /\ text[1] = "-"
      body == IF negative THEN Tail(text) ELSE text
  IN IF body # <<>> /\ \A k \in 1..Len(body) : IsDigit(body[k])
       THEN Ok(IF negative THEN 0 - DecimalValue(body) ELSE DecimalValue(body))
       ELSE Raise("ValueError")

\* datetime.strptime(cell, TIMESTAMP_FORMAT)
csv_strptime(cell) ==
  IF cell.form = "iso" THEN strptime(cell.dt) ELSE Raise("ValueError")

SecondOfDay(dt) == dt[4] * 3600 + dt[5] * 60 + dt[6]

\* idx_map = {name: index for index, name in enumerate(header)}, 1-based;
\* 0 stands for a name that is not a key
idx_map(header, name) ==
  IF \E k \in 1..Len(header) : header[k] = name
    THEN CHOOSE k \in 1..Len(header) :
           /\ header[k] = name
           /\ \A j \in (k + 1)..Len(header) : header[j] # name
    ELSE 0

\* row[idx_map[name]]
row_cell(header, row, name) ==
  IF idx_map(header, name) = 0 THEN Raise("KeyError")
  ELSE IF idx_map(header, name) > Len(row) THEN Raise("IndexError")
  ELSE Ok(row[idx_map(header, name)])

\* float(x) if x else None
float_or_none(cell) ==
  IF Raised(cell) THEN cell
  ELSE IF cell.val = <<>> THEN Ok(None)
  ELSE LET number == float(cell.val)
       IN IF Raised(number) THEN number ELSE Ok(<<number.val>>)

\* -abs(float(x)) if x else None
depth_or_none(cell) ==
  IF Raised(cell) THEN cell
  ELSE IF cell.val = <<>> THEN Ok(None)
  ELSE LET number == float(cell.val)
       IN IF Raised(number) THEN number ELSE Ok(<<0 - Abs(number.val)>>)

\* lines 71-79: the dict appended for one row, or the first exception
read_csv_row(header, row) ==
  LET time_cell == row_cell(header, row, "Timestamp")
      time == IF Raised(time_cell) THEN time_cell ELSE csv_strptime(time_cell.val)
      lat == float_or_none(row_cell(header, row, "kalman_lat"))
      long == float_or_none(row_cell(header, row, "kalman_long"))
      depth == depth_or_none(row_cell(header, row, "kalman_depth"))
      heading == float_or_none(row_cell(header, row, "kalman_yaw_deg"))
      pitch == float_or_none(row_cell(header, row, "kalman_pitch_deg"))
      roll == float_or_none(row_cell(header, row, "kalman_roll_deg"))
  IN IF Raised(time) THEN time
     ELSE IF Raised(lat) THEN lat
     ELSE IF Raised(long) THEN long
     ELSE IF Raised(depth) THEN depth
     ELSE IF Raised(heading) THEN heading
     ELSE IF Raised(pitch) THEN pitch
     ELSE IF Raised(roll) THEN roll
     ELSE Ok([TIME |-> SecondOfDay(time.val), LAT |-> lat.val, LONG |-> long.val,
              DEPTH |-> depth.val, HEADING |-> heading.val, PITCH |-> pitch.val,
              ROLL |-> roll.val])

\* __read_csv_data: the dicts of the rows in file order, or the exception
\* of the first row that cannot be read
RECURSIVE read_csv_data(_, _)
read_csv_data(header, rows) ==
  IF rows = <<>> THEN Ok(<<>>)
  ELSE LET first == read_csv_row(header, Head(rows))
           rest == read_csv_data(header, Tail(rows))
       IN IF Raised(first) THEN first
          ELSE IF Raised(rest) THEN rest
          ELSE Ok(<<first.val>> \o rest.val)

\* the text str(n) of an integer
RECURSIVE NaturalText(_)
NaturalText(n) ==
  IF n < 10 THEN <<DigitChars[n + 1]>>
  ELSE NaturalText(n \div 10) \o <<DigitChars[(n % 10) + 1]>>

Text(n) == IF n < 0 THEN <<"-">> \o NaturalText(0 - n) ELSE NaturalText(n)

\* the columns __read_csv_data reads, and the headers of the model: all
\* seven columns, and a log without the roll column
Columns ==
  <<"Timestamp", "kalman_lat", "kalman_long", "kalman_depth", "kalman_yaw_deg",
    "kalman_pitch_deg", "kalman_roll_deg">>

Headers == {Columns, SubSeq(Columns, 1, Len(Columns) - 1)}

TimeCell(t) == [form |-> "iso", dt |-> <<2024, 5, 17, 0, 0, t>>]

\* the samples of a log, by column: the vehicle of FullRow at second t, a
\* sample with empty cells, a sample on the equator and the prime meridian,
\* and a sample whose time is not of the timestamp format
CsvFull(t) ==
  [Timestamp |-> TimeCell(t), kalman_lat |-> Text(41),
   kalman_long |-> Text(4 * t - 70), kalman_depth |-> Text(t + 1),
   kalman_yaw_deg |-> Text(10 * t), kalman_pitch_deg |-> Text(5),
   kalman_roll_deg |-> Text(t)]

CsvEmpty ==
  [Timestamp |-> TimeCell(0), kalman_lat |-> <<>>, kalman_long |-> <<>>,
   kalman_depth |-> <<>>, kalman_yaw_deg |-> Text(1), kalman_pitch_deg |-> <<>>,
   kalman_roll_deg |-> <<>>]

CsvZero ==
  [Timestamp |-> TimeCell(1), kalman_lat |-> Text(0), kalman_long |-> Text(0),
   kalman_depth |-> Text(0), kalman_yaw_deg |-> Text(0), kalman_pitch_deg |-> Text(0),
   kalman_roll_deg |-> Text(0)]

CsvGarbled ==
  [Timestamp |-> [form |-> "other", dt |-> NoDigits], kalman_lat |-> Text(41),
   kalman_long |-> Text(-70), kalman_depth |-> Text(1), kalman_yaw_deg |-> Text(2),
   kalman_pitch_deg |-> Text(5), kalman_roll_deg |-> Text(0)]

CsvSamples == {CsvFull(t) : t \in 0..MaxTime} \cup {CsvEmpty, CsvZero, CsvGarbled}

\* the row of a sample under a header: its cells in the order of the header
CsvRow(header, sample) == [k \in 1..Len(header) |-> sample[header[k]]]

CsvRows(header) == {CsvRow(header, sample) : sample \in CsvSamples}

\* main.py initialize_modules: the modules in registration order, and the
\* selections of the model
AvailableModules ==
  <<"Extract Images", "Georeference Images", "Batch Directory",
    "RealityCapture Alignment">>

EnabledChoices ==
  {<<"Georeference Images">>,
   <<"Georeference Images", "Batch Directory">>,
   <<"Georeference Images", "RealityCapture Alignment">>,
   <<"Batch Directory", "RealityCapture Alignment">>,
   <<"RealityCapture Alignment">>,
   AvailableModules}

\* __create_batch_folders line 204: the folders zone_<n> of a run
ZoneFolderNames == {"zone_1", "zone_2"}

\* batched_images as an earlier run left it
OldDirs == [NoDirs EXCEPT ![rc_batch_directory] = <<{"batch_1"}>>]

\* the parameters of the modules that name modules disabling them: the
\* name is given as a string or as a list
ModuleParameters ==
  {[module |-> "Georeference Images", name |-> "geo_input_image_dir",
    is_list |-> FALSE, disable_when_module_active |-> {"Extract Images"}],
   [module |-> "Batch Directory", name |-> "batch_input_image_dir",
    is_list |-> FALSE, disable_when_module_active |-> {"Extract Images"}],
   [module |-> "Batch Directory", name |-> "batch_flight_log_path",
    is_list |-> FALSE, disable_when_module_active |-> {"Georeference Images"}],
   [module |-> "RealityCapture Alignment", name |-> "rc_input_image_dir",
    is_list |-> FALSE, disable_when_module_active |-> {"Batch Directory"}],
   [module |-> "RealityCapture Alignment", name |-> "rc_flight_log_path",
    is_list |-> TRUE,
    disable_when_module_active |-> {"Batch Directory", "Georeference Images"}]}

\* main.py initialize_parameters: the names of the active parameters. For a
\* list the continue statement ends a round of the inner loop only and the
\* parameter is added all the same.
initialize_parameters(modules) ==
  {"output_dir", "continue_automatically"} \cup
  {param.name : param \in
     {q \in ModuleParameters :
        /\ q.module \in Range(modules)
        /\ ~(/\ ~q.is_list
             /\ q.disable_when_module_active \cap Range(modules) # {})}}

\* the path __generate_flight_log(image_data, input_dir) writes
geo_flight_log_filename(params) ==
  IF "geo_input_image_dir" \in params
    THEN "geo_input_image_dir/flight_log.txt"
    ELSE "output_dir/raw_images/flight_log.txt"

\* run lines 262-266: the path reported as 'Output Flight Log'
geo_output_path(params) ==
  IF "geo_input_image_dir" \in params
    THEN "geo_input_image_dir/flight_log.txt"
    ELSE "output_dir/flight_log.txt"

\* BatchDirectory.__get_flight_log_path
batch_get_flight_log_path(params) ==
  IF "batch_flight_log_path" \in params THEN "batch_flight_log_path"
  ELSE IF "geo_input_image_dir" \in params
    THEN "geo_input_image_dir/flight_log.txt"
    ELSE "output_dir/flight_log.txt"

\* the line __generate_flight_log writes for an image: the fields joined
\* with ';' (a field that is None is written as the text None)
flight_log_line(image) ==
  [Name |-> image.FILENAME, X |-> image.UTM_X, Y |-> image.UTM_Y,
   Alt |-> image.ALTITUDE_EST, Yaw |-> image.HEADING, Pitch |-> image.PITCH,
   Roll |-> image.ROLL]

\* a flight_log.txt an earlier run left behind
OldFile == [exists |-> TRUE, written_by |-> "earlier run", lines |-> <<>>]

Event(kind, module, ok) == [kind |-> kind, module |-> module, ok |-> ok]

\* main after parse_arguments: the modules selected, the telemetry log on
\* disk, and the disk either without flight logs or with those of an
\* earlier run
InitMain ==
  /\ BatchIdle
  /\ MetaIdle
  /\ GeoIdle
  /\ ToolIdle
  /\ p_pc = "validate"
  /\ enabled \in EnabledChoices
  /\ index = 0
  /\ events = <<>>
  /\ csv_header \in Headers
  /\ csv_rows \in BoundedSeq(CsvRows(csv_header), MaxCsvRows)
  /\ fs \in {NoFiles, [path \in FlightLogPaths |-> OldFile]}
  /\ dirs \in {NoDirs, OldDirs}
  /\ queued = {}

\* main going on to run whatever validate_parameters returned
after_validate_ignored(success) == "run"

\* main lines 178-182: return after a failed validation, else run
after_validate(success) == IF success THEN "run" ELSE "returned"

\* main lines 174-179: validate_parameters of the next module. The checks
\* of directories and of parameters outside the model pass or fail
\* (others_ok); BatchDirectory requires its flight log to be a file.
main_validate ==
  /\ p_pc = "validate"
  /\ \E others_ok \in BOOLEAN :
       LET module == enabled[index + 1]
           params == initialize_parameters(enabled)
           flight_log_path == batch_get_flight_log_path(params)
           success ==
             IF module = "Batch Directory" /\ flight_log_path \in FlightLogPaths
               THEN others_ok /\ fs[flight_log_path].exists
               ELSE others_ok
       IN /\ events' = Append(events, Event("validate", module, success))
          /\ p_pc' = after_validate(success)
          /\ dirs' = IF module = "Batch Directory" /\ success
                       THEN [dirs EXCEPT ![batch_output_dir] = <<{}>>]
                       ELSE dirs
  /\ UNCHANGED <<enabled, index, csv_header, csv_rows, fs, queued, batch_vars,
                 meta_vars, geo_vars, tool_vars>>

\* main line 182 for GeoreferenceImages, run lines 256-276: the log is read
\* and the images of the folder are listed
georeference_run_read ==
  /\ p_pc = "run"
  /\ enabled[index + 1] = "Georeference Images"
  /\ LET rows == read_csv_data(csv_header, csv_rows)
     IN IF Raised(rows)
          THEN /\ events' = Append(events, Event("run", "Georeference Images", FALSE))
               /\ p_pc' = "finish"
               /\ UNCHANGED geo_vars
          ELSE /\ \E images \in Listings(ImageDicts, MaxRunImages),
                     type \in InputTypes :
                    /\ image_data' = images
                    /\ input_type' = type
               /\ data_rows' = rows.val
               /\ g_pc' = "estimate"
               /\ p_pc' = "running"
               /\ UNCHANGED <<events, image_idx, utm_zone, counts>>
  /\ UNCHANGED <<enabled, index, csv_header, csv_rows, fs, dirs, queued, batch_vars,
                 meta_vars, tool_vars>>

\* run lines 277-296 once __estimate_location is over: the flight log is
\* written (lines 228-254, an existing file is removed first), or the
\* exception is caught and the run reports no success
georeference_run_write ==
  /\ p_pc = "running"
  /\ g_pc \in {"returned", "raised"}
  /\ IF g_pc = "raised"
       THEN /\ events' = Append(events, Event("run", "Georeference Images", FALSE))
            /\ UNCHANGED fs
       ELSE /\ events' = Append(events, Event("run", "Georeference Images", TRUE))
            /\ fs' = [fs EXCEPT
                        ![geo_flight_log_filename(initialize_parameters(enabled))] =
                          [exists |-> TRUE, written_by |-> "Georeference Images",
                           lines |-> [k \in 1..Len(image_data) |->
                                        flight_log_line(image_data[k])]]]
  /\ p_pc' = "finish"
  /\ UNCHANGED <<enabled, index, csv_header, csv_rows, dirs, queued, batch_vars,
                 meta_vars, geo_vars, tool_vars>>

\* main line 182 for ExtractImages: the run succeeds or not
module_run ==
  /\ p_pc = "run"
  /\ enabled[index + 1] = "Extract Images"
  /\ \E success \in BOOLEAN :
       events' = Append(events, Event("run", enabled[index + 1], success))
  /\ p_pc' = "finish"
  /\ UNCHANGED <<enabled, index, csv_header, csv_rows, fs, dirs, queued, batch_vars,
                 meta_vars, geo_vars, tool_vars>>

\* main line 182 for BatchDirectory, run lines 226-295: with success the
\* folders of the zones are in batched_images_by_zone
batch_directory_run ==
  /\ p_pc = "run"
  /\ enabled[index + 1] = "Batch Directory"
  /\ \E success \in BOOLEAN :
       /\ events' = Append(events, Event("run", "Batch Directory", success))
       /\ dirs' = IF success
                    THEN [dirs EXCEPT ![batch_output_dir] = <<ZoneFolderNames>>]
                    ELSE dirs
  /\ p_pc' = "finish"
  /\ UNCHANGED <<enabled, index, csv_header, csv_rows, fs, queued, batch_vars,
                 meta_vars, geo_vars, tool_vars>>

\* main line 182 for RealityCaptureAlignment, run lines 315-336: the one
\* input folder is queued, or every folder of batched_images; os.listdir of
\* a folder that does not exist raises outside any try and ends main
realitycapture_run ==
  /\ p_pc = "run"
  /\ enabled[index + 1] = "RealityCapture Alignment"
  /\ IF "rc_input_image_dir" \in initialize_parameters(enabled)
       THEN /\ queued' = {<<"rc_input_image_dir", "">>}
            /\ \E success \in BOOLEAN :
                 events' = Append(events,
                                  Event("run", "RealityCapture Alignment", success))
            /\ p_pc' = "finish"
       ELSE IF dirs[rc_batch_directory] = None
         THEN /\ p_pc' = "crashed"
              /\ UNCHANGED <<queued, events>>
         ELSE /\ queued' = {<<rc_batch_directory, f>> : f \in dirs[rc_batch_directory][1]}
              /\ \E success \in BOOLEAN :
                   events' = Append(events,
                                    Event("run", "RealityCapture Alignment", success))
              /\ p_pc' = "finish"
  /\ UNCHANGED <<enabled, index, csv_header, csv_rows, fs, dirs, batch_vars,
                 meta_vars, geo_vars, tool_vars>>

\* main lines 183-196: finish, the result is logged, and the loop goes on
\* to the next module whatever the result was
main_finish ==
  /\ p_pc = "finish"
  /\ events' = Append(events, Event("finish", enabled[index + 1], TRUE))
  /\ index' = index + 1
  /\ p_pc' = IF index + 1 < Len(enabled) THEN "validate" ELSE "done"
  /\ UNCHANGED <<enabled, csv_header, csv_rows, fs, dirs, queued, batch_vars,
                 meta_vars, geo_vars, tool_vars>>

NextMain ==
  \/ main_validate
  \/ georeference_run_read
  \/ estimate_location_step
  \/ estimate_location_return
  \/ georeference_run_write
  \/ module_run
  \/ batch_directory_run
  \/ realitycapture_run
  \/ main_finish

SpecMain == InitMain /\ [][NextMain]_vars

\* ---------------------------------------------------------------------
\* Zone batching: the overlap size
\* ---------------------------------------------------------------------
\* Python computes int(len * (overlap_percent / 100)) in binary floating
\* point: the quotient is rounded to 53 significant bits, the product is
\* rounded again and int() cuts the fraction off. A natural number of any
\* size is the sequence of its digits to the base 2^15, lowest first; a
\* float is a mantissa of at most 53 bits with the power of two it is
\* scaled by.
MANT_DIG == 53
LimbBits == 15
LIMB == 2 ^ LimbBits
QuotientBits == 70

RECURSIVE Limbs(_)
Limbs(n) == IF n = 0 THEN <<>> ELSE <<n % LIMB>> \o Limbs(n \div LIMB)

RECURSIVE LimbsValue(_)
LimbsValue(limbs) ==
  IF limbs = <<>> THEN 0 ELSE Head(limbs) + LIMB * LimbsValue(Tail(limbs))

Zeros(k) == [j \in 1..k |-> 0]

\* the digits without leading zeros (the highest digits are at the end)
RECURSIVE Trim(_)
Trim(limbs) ==
  IF limbs # <<>> /\ limbs[Len(limbs)] = 0
    THEN Trim(SubSeq(limbs, 1, Len(limbs) - 1))
    ELSE limbs

\* limbs * n + carry for a small n, lowest digit first
RECURSIVE MulSmall(_, _, _)
MulSmall(limbs, n, carry) ==
  IF limbs = <<>> THEN Limbs(carry)
  ELSE LET v == Head(limbs) * n + carry
       IN <<v % LIMB>> \o MulSmall(Tail(limbs), n, v \div LIMB)

\* limbs mod d and floor(limbs / d) for a small d, by long division from the
\* highest digit
RECURSIVE RemSmall(_, _)
RemSmall(limbs, d) ==
  IF limbs = <<>> THEN 0
  ELSE (RemSmall(Tail(limbs), d) * LIMB + Head(limbs)) % d

RECURSIVE DivSmall(_, _)
DivSmall(limbs, d) ==
  IF limbs = <<>> THEN <<>>
  ELSE <<(RemSmall(Tail(limbs), d) * LIMB + Head(limbs)) \div d>>
       \o DivSmall(Tail(limbs), d)

\* limbs + 1
RECURSIVE Increment(_)
Increment(limbs) ==
  IF limbs = <<>> THEN <<1>>
  ELSE IF Head(limbs) < LIMB - 1 THEN <<Head(limbs) + 1>> \o Tail(limbs)
  ELSE <<0>> \o Increment(Tail(limbs))

\* bit j of the number (bit 0 is the lowest) and the number of its bits
Bit(limbs, j) ==
  IF (j \div LimbBits) + 1 > Len(limbs) THEN 0
  ELSE (limbs[(j \div LimbBits) + 1] \div (2 ^ (j % LimbBits))) % 2

BitLength(limbs) ==
  LET trimmed == Trim(limbs)
      top == trimmed[Len(trimmed)]
  IN IF trimmed = <<>> THEN 0
     ELSE LimbBits * (Len(trimmed) - 1)
          + (CHOOSE b \in 1..LimbBits : 2 ^ (b - 1) <= top /\ top < 2 ^ b)

\* limbs * 2^k and floor(limbs / 2^k)
ShiftLeft(limbs, k) ==
  Zeros(k \div LimbBits) \o MulSmall(limbs, 2 ^ (k % LimbBits), 0)

ShiftRight(limbs, k) ==
  DivSmall(SubSeq(limbs, (k \div LimbBits) + 1, Len(limbs)), 2 ^ (k % LimbBits))

\* the float nearest to limbs * 2^exponent (plus a fraction of the lowest
\* bit when sticky), ties to the even mantissa
RoundToFloat(limbs, exponent, sticky) ==
  LET drop == BitLength(limbs) - MANT_DIG
  IN IF drop <= 0 THEN [mantissa |-> Trim(limbs), exponent |-> exponent]
     ELSE LET kept == Trim(ShiftRight(limbs, drop))
              half == Bit(limbs, drop - 1) = 1
              rest == sticky \/ \E j \in 0..(drop - 2) : Bit(limbs, j) = 1
              up == half /\ (rest \/ Bit(kept, 0) = 1)
          IN [mantissa |-> IF up THEN Increment(kept) ELSE kept,
              exponent |-> exponent + drop]

\* the float a / d for natural numbers a and d > 0
float_div(a, d) ==
  RoundToFloat(DivSmall(ShiftLeft(Limbs(a), QuotientBits), d), 0 - QuotientBits,
               RemSmall(ShiftLeft(Limbs(a), QuotientBits), d) # 0)

\* n * x for a natural number n and a float x
float_mul(n, x) == RoundToFloat(MulSmall(x.mantissa, n, 0), x.exponent, FALSE)

\* int(x) for a float x >= 0
float_int(x) ==
  IF x.exponent >= 0 THEN LimbsValue(ShiftLeft(x.mantissa, x.exponent))
  ELSE LimbsValue(Trim(ShiftRight(x.mantissa, 0 - x.exponent)))

\* line 123: overlap_size = int(len(zone_i_gdf) * (overlap_percent / 100))
zone_overlap_size(zone_len, percent) ==
  float_int(float_mul(zone_len, float_div(percent, 100)))

\* a call with a zone of any size up to MaxZoneSize and a whole percentage
InitSize ==
  /\ BatchIdle
  /\ MetaIdle
  /\ GeoIdle
  /\ MainIdle
  /\ ZoneIdle
  /\ o_pc = "call"
  /\ o_len \in 0..MaxZoneSize
  /\ o_percent \in 0..100
  /\ o_size = 0

zone_overlap_size_call ==
  /\ o_pc = "call"
  /\ o_size' = zone_overlap_size(o_len, o_percent)
  /\ o_pc' = "returned"
  /\ UNCHANGED <<o_len, o_percent, batch_vars, meta_vars, geo_vars, main_vars,
                 zone_vars>>

NextSize == zone_overlap_size_call

SpecSize == InitSize /\ [][NextSize]_vars

\* ---------------------------------------------------------------------
\* Zone batching: BatchDirectory.run of modules/image_batcher
\* ---------------------------------------------------------------------
\* the rows of a flight log: image k at a point of the plane, and an image
\* that was not georeferenced (its X and Y read as NaN)
Coords == {<<0, 0>>, <<1, 0>>, <<3, 1>>}

FlightLogRow(k, c) ==
  [filename |-> <<"img", k>>,
   x |-> IF c = <<>> THEN None ELSE <<c[1]>>,
   y |-> IF c = <<>> THEN None ELSE <<c[2]>>]

\* the flight logs of the model: up to MaxPoints images, the first of
\* which may be without coordinates
FlightLogs ==
  UNION {{[k \in 1..n |-> FlightLogRow(k, f[k])] :
            f \in {g \in [1..n -> Coords \cup {<<>>}] :
                     \A k \in 2..n : g[k] # <<>>}} : n \in 0..MaxPoints}

ZoneCounts == {0, 1, 2, 3}
InitialOverlaps == {-1, 0, 50}
NewOverlaps == {100}

\* __get_flight_log_gdf: the rows with both coordinates (dropna)
get_flight_log_gdf(rows) ==
  SelectSeq(rows, LAMBDA r : r.x # None /\ r.y # None)

\* the labellings KMeans can give n_clusters clusters of the points: every
\* point has one label in 0 .. n_clusters-1 and points at the same place
\* have the same label (the label is the nearest centre); no labelling
\* when KMeans raises
KMeansFits(gdf, n_clusters) ==
  IF n_clusters < 1 \/ Len(gdf) < n_clusters THEN {<<>>}
  ELSE {f \in [1..Len(gdf) -> 0..(n_clusters - 1)] :
          \A a, b \in 1..Len(gdf) :
            (gdf[a].x = gdf[b].x /\ gdf[a].y = gdf[b].y) => f[a] = f[b]}

\* KMeans without a fixed seed: the clusters are numbered differently from
\* one call to the next
KMeans_unseeded(gdf, n_clusters, random_state) ==
  IF Len(gdf) < n_clusters THEN Raise("ValueError")
  ELSE Ok([k \in 1..Len(gdf) |-> (kmeans_fit[k] + Len(proposals)) % n_clusters])

\* line 105: KMeans(n_clusters, random_state=42, n_init=10).fit(coords)
\* .labels_; ValueError for fewer samples than clusters. With the seed
\* fixed the labels are a function of the points: kmeans_fit.
KMeans(gdf, n_clusters, random_state) ==
  IF Len(gdf) < n_clusters THEN Raise("ValueError") ELSE Ok(kmeans_fit)

\* the integers of S in ascending order
RECURSIVE Ascending(_)
Ascending(S) ==
  IF S = {} THEN <<>>
  ELSE LET least == CHOOSE a \in S : \A b \in S : a <= b
       IN <<least>> \o Ascending(S \ {least})

\* a zone taking the rows of the clusters up to its own
base_zone_upto(labels, zone) ==
  Ascending({k \in 1..Len(labels) : labels[k] <= zone})

\* line 108: gdf[gdf['cluster'] == i], as the row numbers in gdf order
base_zone(labels, zone) ==
  Ascending({k \in 1..Len(labels) : labels[k] = zone})

\* line 115: gdf[gdf['cluster'] != i]
other_rows(labels, zone) ==
  Ascending({k \in 1..Len(labels) : labels[k] # zone})

\* square of the distance of two rows (the order of the distances is the
\* order of their squares)
SqDist(a, b) ==
  (a.x[1] - b.x[1]) * (a.x[1] - b.x[1]) + (a.y[1] - b.y[1]) * (a.y[1] - b.y[1])

\* lines 128-129: tree.query(..., k=1), the distance of row k to the
\* nearest row of the zone
distance_to_zone(gdf, zone_rows, k) ==
  LET distances == {SqDist(gdf[k], gdf[b]) : b \in Range(zone_rows)}
  IN CHOOSE d \in distances : \A e \in distances : d <= e

\* lines 134-135: sort_values('distance_to_zone').head(overlap_size); the
\* order of rows at the same distance is not fixed by the sort
closest_external_points(gdf, zone_rows, others, overlap_size_) ==
  UNION {{add \in Listings(Range(others), Min(overlap_size_, Len(others))) :
            /\ Len(add) = Min(overlap_size_, Len(others))
            /\ \A a, b \in 1..Len(add) :
                 a < b => distances[add[a]] <= distances[add[b]]
            /\ \A k \in Range(others) \ Range(add) : \A a \in 1..Len(add) :
                 distances[add[a]] <= distances[k]} :
         distances \in {[k \in Range(others) |-> distance_to_zone(gdf, zone_rows, k)]}}

\* lines 111-140: the rows of the final zone i, one outcome for each order
\* the sort may give rows at the same distance
final_zone_choices(gdf, labels, zone, overlap_percent_) ==
  UNION {IF overlap_percent_ <= 0 \/ others = <<>> \/ overlap_size_ = 0
           THEN {zone_rows}
           ELSE {zone_rows \o add :
                   add \in closest_external_points(gdf, zone_rows, others, overlap_size_)} :
         <<zone_rows, others, overlap_size_>> \in
           {<<base_zone(labels, zone), other_rows(labels, zone),
              zone_overlap_size(Len(base_zone(labels, zone)), overlap_percent_)>>}}

\* zone['filename'].tolist()
filenames_of(gdf, rows) == [j \in 1..Len(rows) |-> gdf[rows[j]].filename]

\* list(dict.fromkeys(files))
RECURSIVE unique_files(_)
unique_files(zone_files) ==
  IF zone_files = <<>> THEN <<>>
  ELSE LET earlier == unique_files(SubSeq(zone_files, 1, Len(zone_files) - 1))
           last == zone_files[Len(zone_files)]
       IN IF \E j \in 1..Len(earlier) : earlier[j] = last THEN earlier
          ELSE Append(earlier, last)

\* lines 194-218: the folder zone_<n> of each zone, its files and the rows
\* of the flight log whose Name is one of them
create_batch_folders(zones, rows) ==
  [n \in 1..Len(zones) |->
     LET unique_zone_files == unique_files(zones[n])
     IN [files |-> unique_zone_files,
         flight_log |-> SelectSeq(rows, LAMBDA r :
                          \E j \in 1..Len(unique_zone_files) :
                            unique_zone_files[j] = r.filename)]]

\* a run of the module: the flight log on disk, the parameters, and the
\* labels the seeded KMeans gives the points of that log
InitZone ==
  /\ BatchIdle
  /\ MetaIdle
  /\ GeoIdle
  /\ MainIdle
  /\ SizeIdle
  /\ z_pc = "validate"
  /\ flight_log \in FlightLogs
  /\ num_zones \in ZoneCounts
  /\ zone_overlap \in InitialOverlaps
  /\ kmeans_fit \in KMeansFits(get_flight_log_gdf(flight_log), num_zones)
  /\ proposals = <<>>
  /\ final_zones = <<>>
  /\ rounds = 0
  /\ zone_folders = <<>>
  /\ out_dir = FALSE

\* validate_parameters (lines 297-332) with the input folder and the flight
\* log in place and no batched_images_by_zone folder yet
zone_validate ==
  /\ z_pc = "validate"
  /\ IF num_zones < 1 \/ ~(0 <= zone_overlap /\ zone_overlap <= 100)
       THEN /\ z_pc' = "failed"
            /\ UNCHANGED out_dir
       ELSE /\ z_pc' = "read"
            /\ out_dir' = TRUE
  /\ UNCHANGED <<flight_log, num_zones, zone_overlap, kmeans_fit, proposals,
                 final_zones, rounds, zone_folders, zone_frame>>

\* run lines 226-237: the flight log is read
zone_read ==
  /\ z_pc = "read"
  /\ z_pc' = IF get_flight_log_gdf(flight_log) = <<>> THEN "failed" ELSE "loop"
  /\ UNCHANGED <<flight_log, num_zones, zone_overlap, kmeans_fit, proposals,
                 final_zones, rounds, zone_folders, out_dir, zone_frame>>

\* run lines 239-261 with __create_geographic_zones (lines 100-145): the
\* zones are computed and shown; an exception of KMeans leaves run
zone_propose ==
  /\ z_pc = "loop"
  /\ \E gdf \in {get_flight_log_gdf(flight_log)} :
     \E fit \in {KMeans(gdf, num_zones, 42)} :
       IF Raised(fit)
         THEN /\ z_pc' = "raised"
              /\ UNCHANGED <<proposals, final_zones>>
         ELSE \E choices \in {[n \in 1..num_zones |->
                                 final_zone_choices(gdf, fit.val, n - 1, zone_overlap)]} :
              \E final_rows \in
                   {f \in [1..num_zones -> UNION Range(choices)] :
                      \A n \in 1..num_zones : f[n] \in choices[n]} :
                /\ proposals' = Append(proposals,
                     [overlap_percent |-> zone_overlap,
                      base_zones |-> [n \in 1..num_zones |->
                                        filenames_of(gdf, base_zone(fit.val, n - 1))]])
                /\ final_zones' = [n \in 1..num_zones |->
                                     filenames_of(gdf, final_rows[n])]
                /\ z_pc' = "proposed"
  /\ UNCHANGED <<flight_log, num_zones, zone_overlap, kmeans_fit, rounds,
                 zone_folders, out_dir, zone_frame>>

\* run lines 263-265 and 283-295: 'a', the folders of the zones are written
zone_accept ==
  /\ z_pc = "proposed"
  /\ zone_folders' =
       create_batch_folders(final_zones, flight_log)
  /\ z_pc' = "returned"
  /\ UNCHANGED <<flight_log, num_zones, zone_overlap, kmeans_fit, proposals,
                 final_zones, rounds, out_dir, zone_frame>>

\* run lines 266-279: 'r' and a new overlap percentage; the output folder
\* is emptied and the loop goes round
zone_reject ==
  /\ z_pc = "proposed"
  /\ rounds < MaxRounds
  /\ \E new_overlap \in NewOverlaps : zone_overlap' = new_overlap
  /\ rounds' = rounds + 1
  /\ out_dir' = TRUE
  /\ z_pc' = "loop"
  /\ UNCHANGED <<flight_log, num_zones, kmeans_fit, proposals, final_zones,
                 zone_folders, zone_frame>>

\* run lines 280-281: any other input, the loop goes round
zone_invalid_input ==
  /\ z_pc = "proposed"
  /\ rounds < MaxRounds
  /\ rounds' = rounds + 1
  /\ z_pc' = "loop"
  /\ UNCHANGED <<flight_log, num_zones, zone_overlap, kmeans_fit, proposals,
                 final_zones, zone_folders, out_dir, zone_frame>>

NextZone ==
  \/ zone_validate
  \/ zone_read
  \/ zone_propose
  \/ zone_accept
  \/ zone_reject
  \/ zone_invalid_input

SpecZone == InitZone /\ [][NextZone]_vars

\* the two batchers, each called on its inputs
InitBatchers == InitLog \/ InitZone

NextBatchers == NextBatch \/ NextZone

SpecBatchers == InitBatchers /\ [][NextBatchers]_vars

\* ---------------------------------------------------------------------
\* Properties of batch_files
\* ---------------------------------------------------------------------
\* o is floor(batch_size * overlap_percent / 100)
IsFloorOverlap(o) ==
  /\ o * 100 <= batch_size * overlap_percent
  /\ batch_size * overlap_percent < (o + 1) * 100

\* the records of the sorted list at the 0-based indices lo .. hi-1
RecordsAt(lo, hi) ==
  [j \in 1..(IF hi > lo THEN hi - lo ELSE 0) |-> files[lo + j]]

\* the 0-based indices of the sorted list at which a file of batch b (1-based)
\* is a base member: the file is in the batch and its index is not below
\* (b-1) * batch_size
BaseMembers(b) ==
  {k \in 0..(Len(files) - 1) :
     /\ k >= (b - 1) * batch_size
     /\ \E j \in 1..Len(batches[b].batch_files) : batches[b].batch_files[j] = files[k + 1]}

RECURSIVE SumBaseSizes(_)
SumBaseSizes(b) ==
  IF b = 0 THEN 0 ELSE Cardinality(BaseMembers(b)) + SumBaseSizes(b - 1)

\* C1: batch i (0-indexed) of batch_files is exactly the records of the
\* sorted list at the indices [i*batch_size - (overlap_size if i > 0 else 0),
\* min((i+1)*batch_size, N-1)), upper bound exclusive, in sorted order, with
\* overlap_size = floor(batch_size*overlap_percent/100); there are
\* num_batches of them.
C1_BatchIsIndexRange ==
  b_pc \in {"loop", "returned"} =>
    /\ b_pc = "returned" => Len(batches) = num_batches
    /\ \A a, b \in 1..Len(files) :
         a < b => ~TupleLess(sort_files_key(files[b]).val, sort_files_key(files[a]).val)
    /\ \E o \in 0..batch_size :
         /\ IsFloorOverlap(o)
         /\ \A k \in 1..Len(batches) :
              LET lo == (k - 1) * batch_size - (IF k - 1 > 0 THEN o ELSE 0)
                  hi == IF k * batch_size < Len(files) - 1
                          THEN k * batch_size ELSE Len(files) - 1
              IN batches[k].batch_files = RecordsAt(lo, hi)

C1_Witness ==
  /\ b_pc = "returned"
  /\ Len(batches) >= 2
  /\ overlap_size >= 1
  /\ Len(batches[1].batch_files) >= 2
  /\ Len(batches[2].batch_files) >= 2

\* C2: every one of the N sorted records is a base member of exactly one
\* batch, so the base sizes of the batches sum to N.
C2_EveryRecordInOneBase ==
  b_pc = "returned" =>
    /\ \A k \in 0..(Len(files) - 1) :
         Cardinality({b \in 1..Len(batches) : k \in BaseMembers(b)}) = 1
    /\ SumBaseSizes(Len(batches)) = Len(files)

\* C3: the number of batches batch_files returns is ceil(N / batch_size).
C3_NumBatchesIsCeil ==
  b_pc = "returned" =>
    /\ Len(batches) * batch_size >= Len(files)
    /\ (Len(batches) - 1) * batch_size < Len(files)

C3_Witness ==
  /\ b_pc = "returned"
  /\ Len(files) % batch_size # 0
  /\ Len(batches) >= 2

\* C4 as stated: for every accepted batch_size and overlap_percent,
\* overlap_size = floor(batch_size*overlap_percent/100) and
\* 0 <= overlap_size < batch_size.
C4_OverlapBelowBatchSize ==
  b_pc \in {"loop", "returned"} =>
    /\ IsFloorOverlap(overlap_size)
    /\ 0 <= overlap_size
    /\ overlap_size < batch_size

\* C4 amended: for every accepted batch_size and overlap_percent,
\* overlap_size = floor(batch_size*overlap_percent/100) and
\* 0 <= overlap_size <= batch_size, with overlap_size = batch_size at
\* overlap_percent = 100.
C4_OverlapAtMostBatchSize ==
  b_pc \in {"loop", "returned"} =>
    /\ IsFloorOverlap(overlap_size)
    /\ 0 <= overlap_size
    /\ overlap_size <= batch_size
    /\ overlap_percent = MAX_OVERLAP_PERCENT => overlap_size = batch_size

C4_Witness ==
  /\ b_pc = "loop"
  /\ overlap_percent = MAX_OVERLAP_PERCENT
  /\ overlap_size = batch_size
  /\ batch_size >= 2

\* C5: for every batch i >= 1 the first overlap_size members of batch i are,
\* by filename and in the same order, the last overlap_size members of
\* batch i-1.
C5_OverlapIsTailOfPrevious ==
  b_pc \in {"loop", "returned"} =>
    \A k \in 2..Len(batches) :
      LET prev == batches[k - 1].batch_files
          cur == batches[k].batch_files
      IN /\ Len(cur) >= overlap_size
         /\ Len(prev) >= overlap_size
         /\ SubSeq(cur, 1, overlap_size)
              = SubSeq(prev, Len(prev) - overlap_size + 1, Len(prev))

C5_Witness ==
  /\ b_pc = "returned"
  /\ Len(batches) >= 3
  /\ Len(files) % batch_size # 0
  /\ overlap_size >= 1
  /\ overlap_size < batch_size

\* C6: sort_files yields the same sequence for every permutation of the same
\* set of filenames.
C6_SortIgnoresListingOrder ==
  b_pc = "loop" =>
    \A p \in Listings({files[k] : k \in 1..Len(files)}, Len(files)) :
      Len(p) = Len(files) => sort_files(p).val = files

\* ---------------------------------------------------------------------
\* Properties of the metadata extractor
\* ---------------------------------------------------------------------
\* the name holds a timestamp of a grammar the extractor behind the
\* operation recognizes
Recognized(op, f) ==
  /\ TimestampDigitsMatch(f.dt)
  /\ \/ f.form = "sep"
     \/ f.form = "compact" /\ op \in {"parse_timestamp", "get_component_file_name"}

\* the list an ordering operation returned
OrderedFiles ==
  IF m_out.op = "sort_files" THEN m_out.res.val ELSE m_out.res.val.files

\* C7: in every ordering built from the extractor's sort key a file without
\* recognizable timestamp comes after every file with a recognized
\* timestamp, and among files sharing a timestamp a file without frame
\* marker comes after every file with a frame index.
C7_SentinelsSortLast ==
  (m_pc = "returned" /\ m_out.op \in {"sort_files", "get_component_file_name"}) =>
    \A a, b \in 1..Len(OrderedFiles) :
      LET fa == OrderedFiles[a]
          fb == OrderedFiles[b]
      IN /\ (~Recognized(m_out.op, fa) /\ Recognized(m_out.op, fb)) => a > b
         /\ ( /\ Recognized(m_out.op, fa)
              /\ Recognized(m_out.op, fb)
              /\ fa.dt = fb.dt
              /\ fa.frame < 0
              /\ fb.frame >= 0 ) => a > b

\* C8: parse_unix_timestamp / parse_timestamp return a timestamp or the
\* sentinel for every filename and never raise.
C8_TimestampExtractionTotal ==
  m_out.op \in {"ib_parse_unix_timestamp", "parse_timestamp"} => m_pc # "raised"

\* ---------------------------------------------------------------------
\* Properties of the temporal matcher
\* ---------------------------------------------------------------------
TimeDelta(k, image) == Abs(data_rows[k].TIME - image.TIMESTAMP)

\* row j is nearest in time to the image and no earlier row is as near
FirstNearest(j, image) ==
  /\ \A k \in 1..Len(data_rows) : TimeDelta(k, image) >= TimeDelta(j, image)
  /\ \A k \in 1..(j - 1) : TimeDelta(k, image) > TimeDelta(j, image)

\* the image carries the position and attitude fields of row j
AssignedRow(image, j) ==
  /\ image.LAT = data_rows[j].LAT
  /\ image.LONG = data_rows[j].LONG
  /\ image.ALTITUDE_EST = data_rows[j].DEPTH
  /\ image.HEADING = data_rows[j].HEADING
  /\ image.ROLL = data_rows[j].ROLL

\* C9: each image is assigned the telemetry sample whose time minimizes
\* |time - image.timestamp| over all loaded samples; of several samples at
\* the minimum the first of the telemetry sequence is chosen.
C9_NearestSampleFirstOnTie ==
  \A n \in 1..image_idx :
    data_rows # <<>> =>
      \E j \in 1..Len(data_rows) :
        FirstNearest(j, image_data[n]) /\ AssignedRow(image_data[n], j)

C9_Witness ==
  /\ g_pc = "returned"
  /\ \E n \in 1..image_idx : \E j, k \in 1..Len(data_rows) :
       /\ j < k
       /\ FirstNearest(j, image_data[n])
       /\ TimeDelta(k, image_data[n]) = TimeDelta(j, image_data[n])
       /\ data_rows[j].TIME # data_rows[k].TIME
       /\ AssignedRow(image_data[n], j)
       /\ ~AssignedRow(image_data[n], k)

\* C10: with the acceptance window of 2 seconds an image is matched when
\* its nearest telemetry sample is at most 2 seconds away and is unmatched,
\* with null position fields, when the nearest sample is further away.
C10_WindowOfTwoSeconds ==
  \A n \in 1..image_idx :
    data_rows # <<>> =>
      \E j \in 1..Len(data_rows) :
        /\ FirstNearest(j, image_data[n])
        /\ TimeDelta(j, image_data[n]) <= 2 => AssignedRow(image_data[n], j)
        /\ TimeDelta(j, image_data[n]) > 2 =>
             /\ image_data[n].LAT = None
             /\ image_data[n].LONG = None
             /\ image_data[n].UTM_X = None
             /\ image_data[n].UTM_Y = None
             /\ image_data[n].ALTITUDE_EST = None
             /\ image_data[n].HEADING = None
             /\ image_data[n].ROLL = None

\* ---------------------------------------------------------------------
\* Properties of the pitch and of the coordinate conversion
\* ---------------------------------------------------------------------
\* the row min(data_rows, key=...) gives the image
ClosestMatch(image) ==
  data_rows[python_min([k \in 1..Len(data_rows) |-> TimeDelta(k, image)], 1, 2)]

\* C11: the pitch of every image is vehicle pitch + camera offset of the
\* prefix + orientation constant, the vehicle pitch being the matched
\* sample's pitch, or 0 when the image is unmatched: an unmatched image has
\* the pitch the matched branch gives its filename with vehicle pitch 0.
C11_PitchIsSumWithDefaultZero ==
  \A n \in 1..image_idx :
    LET image == image_data[n]
        vehicle_pitch == IF data_rows = <<>> THEN <<0>>
                         ELSE ClosestMatch(image).PITCH
        final_pitch == matched_pitch(image.FILENAME, vehicle_pitch, input_type)
    IN /\ ~Raised(final_pitch)
       /\ image.PITCH = final_pitch.val

\* C12: the zone is fixed by the first converted point and every later
\* point is converted in that zone: all eastings and northings of a run
\* are in the zone the run recorded.
C12_OneZonePerRun ==
  \A n \in 1..image_idx :
    image_data[n].UTM_X # None =>
      /\ utm_zone # None
      /\ image_data[n].UTM_X[4] = utm_zone[1]
      /\ image_data[n].UTM_Y[4] = utm_zone[1]

\* ---------------------------------------------------------------------
\* Properties of the telemetry loader and of the run of the pipeline
\* ---------------------------------------------------------------------
\* C13: the samples the loader returns are sorted by time, non-decreasing,
\* whatever the order of the rows in the log file.
C13_LoaderSortsByTime ==
  p_pc \in {"running", "finish", "validate", "run", "done", "returned"} =>
    \A a, b \in 1..Len(data_rows) :
      a < b => data_rows[a].TIME <= data_rows[b].TIME

\* the loader cannot read the log: a time cell is not of the timestamp
\* format or a column a row is read by is not in the header
LogUnreadable == Raised(read_csv_data(csv_header, csv_rows))

\* C14: a telemetry log with an unparsable time or without a required
\* column is fatal for the run: no flight_log.txt is written from it and no
\* later module runs once GeoreferenceImages has reported the failure.
C14_UnreadableLogStopsRun ==
  LogUnreadable =>
    /\ \A path \in FlightLogPaths : fs[path].written_by # "Georeference Images"
    /\ \A k \in 1..Len(events) :
         (events[k].kind = "run" /\ events[k].module = "Georeference Images") =>
           /\ ~events[k].ok
           /\ \A j \in (k + 1)..Len(events) : events[j].kind # "run"

\* the cell of row k of the log in the column of the name
SourceCell(k, name) == csv_rows[k][idx_map(csv_header, name)]

\* C20: null and zero are kept apart: a field of a loaded sample is null
\* exactly when its cell in the log is empty, and the conversion gives a
\* null easting or northing only when the latitude or the longitude of the
\* sample is null, so a sample at latitude 0 or longitude 0 is converted.
C20_NullOnlyForEmptyCells ==
  p_pc \in {"running", "finish", "done"} /\ g_pc # "idle" =>
    /\ \A k \in 1..Len(data_rows) :
         /\ data_rows[k].LAT = None <=> SourceCell(k, "kalman_lat") = <<>>
         /\ data_rows[k].LONG = None <=> SourceCell(k, "kalman_long") = <<>>
         /\ data_rows[k].DEPTH = None <=> SourceCell(k, "kalman_depth") = <<>>
         /\ data_rows[k].HEADING = None <=> SourceCell(k, "kalman_yaw_deg") = <<>>
         /\ data_rows[k].PITCH = None <=> SourceCell(k, "kalman_pitch_deg") = <<>>
         /\ data_rows[k].ROLL = None <=> SourceCell(k, "kalman_roll_deg") = <<>>
    /\ \A n \in 1..image_idx :
         (data_rows # <<>> /\ (image_data[n].UTM_X = None \/ image_data[n].UTM_Y = None)) =>
           \/ ClosestMatch(image_data[n]).LAT = None
           \/ ClosestMatch(image_data[n]).LONG = None

\* ---------------------------------------------------------------------
\* Properties of zone batching
\* ---------------------------------------------------------------------
\* the rows of the flight log with both coordinates
ValidRows == {k \in 1..Len(flight_log) : flight_log[k].x # None /\ flight_log[k].y # None}

\* the zones (1-based) that have the file among the files of zones_
ZonesOf(zones_, filename) ==
  {n \in 1..Len(zones_) : \E j \in 1..Len(zones_[n]) : zones_[n][j] = filename}

RECURSIVE SumOfZoneSizes(_, _)
SumOfZoneSizes(zones_, n) ==
  IF n = 0 THEN 0 ELSE Len(zones_[n]) + SumOfZoneSizes(zones_, n - 1)

\* C15: every record with valid coordinates is in the base membership of
\* exactly one of the K zones, the base zone sizes sum to the number of
\* valid-coordinate records, and exactly K zones are produced.
C15_EveryRecordInOneBaseZone ==
  \A a \in 1..Len(proposals) :
    /\ Len(proposals[a].base_zones) = num_zones
    /\ \A k \in ValidRows :
         Cardinality(ZonesOf(proposals[a].base_zones, flight_log[k].filename)) = 1
    /\ SumOfZoneSizes(proposals[a].base_zones, num_zones) = Cardinality(ValidRows)

C15_Witness ==
  /\ z_pc = "proposed"
  /\ num_zones >= 2
  /\ Cardinality(ValidRows) >= 3
  /\ Cardinality(ValidRows) < Len(flight_log)
  /\ \E m, n \in 1..num_zones :
       /\ m # n
       /\ Len(proposals[1].base_zones[m]) >= 1
       /\ Len(proposals[1].base_zones[n]) >= 2

\* the row of the flight log with the filename
RowOf(filename) == CHOOSE k \in 1..Len(flight_log) : flight_log[k].filename = filename

\* square of the distance of a file to the nearest file of the list
NearestSqDist(filename, zone_files) ==
  LET distances == {SqDist(flight_log[RowOf(filename)], flight_log[RowOf(zone_files[j])]) :
                      j \in 1..Len(zone_files)}
  IN CHOOSE d \in distances : \A e \in distances : d <= e

\* the zones of the last round are the base zones with the nearest points
\* of the other zones added, overlap_size (the floor) of them at most
ZonesAreBasePlusNearest ==
  (z_pc \in {"proposed", "returned"} /\ zone_overlap > 0) =>
    \A n \in 1..num_zones :
      LET base == proposals[Len(proposals)].base_zones[n]
          final == final_zones[n]
          added == SubSeq(final, Len(base) + 1, Len(final))
          outside == {flight_log[k].filename : k \in ValidRows} \ Range(base)
      IN /\ SubSeq(final, 1, Len(base)) = base
         /\ Len(added) = Min((Len(base) * zone_overlap) \div 100, Cardinality(outside))
         /\ Cardinality(Range(added)) = Len(added)
         /\ Range(added) \subseteq outside
         /\ \A f \in Range(added) :
              \E m \in 1..num_zones :
                m # n /\ f \in Range(proposals[Len(proposals)].base_zones[m])
         /\ \A f \in Range(added) : \A g \in outside \ Range(added) :
              ~(NearestSqDist(g, base) < NearestSqDist(f, base))

\* the overlap size is floor(zone size * overlap_percent / 100)
OverlapSizeIsFloor ==
  o_pc = "returned" =>
    /\ o_size * 100 <= o_len * o_percent
    /\ o_len * o_percent < (o_size + 1) * 100

\* C16: with overlap_percent > 0 the members a zone has beyond its base are
\* exactly min(overlap_size, number of points of the other zones) points,
\* overlap_size = floor(base zone size * overlap_percent / 100); each is
\* a base member of another zone, and no point left out is strictly closer
\* to the zone than an added one.
C16_OverlapIsFloorOfNearest == ZonesAreBasePlusNearest /\ OverlapSizeIsFloor

DistinctPoints ==
  Cardinality({<<flight_log[k].x, flight_log[k].y>> : k \in ValidRows})

\* C18: K zones asked of fewer than K distinct points is rejected before
\* any clustering result, zone folder or manifest is produced: no zones
\* are proposed and none written.
C18_TooFewPointsRejected ==
  DistinctPoints < num_zones =>
    /\ proposals = <<>>
    /\ final_zones = <<>>
    /\ zone_folders = <<>>

\* ---------------------------------------------------------------------
\* Properties of the flight log of a batch
\* ---------------------------------------------------------------------
\* C19: the flight_log.txt of a batch has only lines of the full flight log
\* that are the entry of a member file of the batch, and each member file
\* with an entry in the full log gets its own entry, also when a filename is
\* a substring of another filename or line.
C19_BatchLogIsMembersEntries ==
  \A k \in 1..Len(batch_flight_logs) :
    batch_flight_logs[k] # None =>
      LET written == Range(batch_flight_logs[k][1])
          members == Range(batches[k].batch_files)
          full == Range(flight_log_file.lines)
      IN /\ written \subseteq full
         /\ \A line \in written : \E f \in members : line = FlightLogEntry(f)
         /\ \A f \in members : FlightLogEntry(f) \in full => FlightLogEntry(f) \in written

\* ---------------------------------------------------------------------
\* Index safety of batch_files
\* ---------------------------------------------------------------------
\* C30: for N >= 1, batch_size >= 1, overlap_percent in [0, 100] and every
\* batch index 0 <= i < num_batches, calculate_indices returns
\* 0 <= start_index <= end_index <= N - 1, so get_file_metadata reads no
\* index outside the sorted list.
C30_IndicesInsideList ==
  b_pc \in {"loop", "returned"} =>
    \A index_ \in 0..(num_batches - 1) :
      LET indices == calculate_indices(index_, batch_size, overlap_size, files)
      IN /\ 0 <= indices[1]
         /\ indices[1] <= indices[2]
         /\ indices[2] <= Len(files) - 1
         /\ ~Raised(list_item(files, indices[1]))
         /\ ~Raised(list_item(files, indices[2]))

C30_Witness ==
  /\ b_pc = "returned"
  /\ Len(batches) >= 3
  /\ overlap_size >= 1
  /\ batches[2].start_index = batch_size - overlap_size
  /\ batches[3].end_index = Len(files) - 1

\* ---------------------------------------------------------------------
\* Properties of the flight log hand-off and of the loop of main
\* ---------------------------------------------------------------------
\* C21: a flight log that already exists at the output path is replaced
\* only after a decision of the caller; the writer never removes or
\* overwrites it on its own. The writer takes no decision of the caller, so
\* a file that exists stays as it is.
C21_ExistingManifestKept ==
  [][\A path \in FlightLogPaths : fs[path].exists => fs'[path] = fs[path]]_vars

\* C26: with Georeference Images and Batch Directory both enabled (with or
\* without Extract Images) the path at which the georeferencing module
\* writes flight_log.txt is the path the batch module resolves and
\* validates, and is the 'Output Flight Log' path the module reports.
C26_FlightLogPathsAgree ==
  (/\ \E k \in 1..Len(events) : events[k] = Event("run", "Georeference Images", TRUE)
   /\ "Batch Directory" \in Range(enabled)) =>
    LET params == initialize_parameters(enabled)
    IN /\ geo_flight_log_filename(params) = batch_get_flight_log_path(params)
       /\ geo_flight_log_filename(params) = geo_output_path(params)
       /\ fs[batch_get_flight_log_path(params)].written_by = "Georeference Images"
       /\ fs[geo_output_path(params)].written_by = "Georeference Images"

\* C27: initialize_parameters leaves a module parameter out of the active
\* set exactly when its disable_when_module_active names an enabled module,
\* given as one name or as a list of which at least one is enabled.
C27_DisabledParametersLeftOut ==
  events # <<>> =>
    \A q \in ModuleParameters :
      q.module \in Range(enabled) =>
        (q.name \notin initialize_parameters(enabled)
           <=> q.disable_when_module_active \cap Range(enabled) # {})

\* the place of a module in the order of registration
Registration(module) == CHOOSE k \in 1..Len(AvailableModules) : AvailableModules[k] = module

\* C28: enabled modules are processed one at a time in registration order;
\* a run starts only after the module's own validate_parameters returned
\* success, the next module is not validated before the finish of the one
\* before, and after a failed validation nothing is validated or run.
C28_PipelineOrder ==
  /\ \A k \in 1..Len(events) :
       /\ events[k].kind = "validate" =>
            /\ k = 1 \/ /\ events[k - 1].kind = "finish"
                        /\ Registration(events[k - 1].module) < Registration(events[k].module)
            /\ ~events[k].ok => k = Len(events)
       /\ events[k].kind = "run" =>
            /\ k > 1
            /\ events[k - 1] = Event("validate", events[k].module, TRUE)
       /\ events[k].kind = "finish" =>
            /\ k > 1
            /\ events[k - 1].kind = "run"
            /\ events[k - 1].module = events[k].module
  /\ p_pc \in {"run", "running"} =>
       /\ events # <<>>
       /\ events[Len(events)] = Event("validate", enabled[index + 1], TRUE)
  /\ \A k \in 1..Len(events) : events[k].module \in Range(enabled)

C28_Witness ==
  /\ p_pc = "returned"
  /\ Len(events) >= 7
  /\ events[Len(events)] = Event("validate", "RealityCapture Alignment", FALSE)
  /\ \E k \in 1..Len(events) : events[k] = Event("run", "Georeference Images", FALSE)

\* C29: for every sample the loader can produce, also one whose pitch is
\* null because the cell was empty, __estimate_location completes without
\* error and writes a pitch for the matched image, the null vehicle pitch
\* counted as 0; the georeferencing run does not fail for it.
C29_NullPitchTolerated ==
  /\ g_pc # "raised"
  /\ \A k \in 1..image_idx : data_rows # <<>> => image_data[k].PITCH # None
  /\ \A k \in 1..Len(events) :
       (events[k].kind = "run" /\ events[k].module = "Georeference Images"
          /\ ~Raised(read_csv_data(csv_header, csv_rows))) => events[k].ok

\* RealityCaptureAlignment.run is over, with a result or with an exception
AlignmentRan ==
  \/ \E k \in 1..Len(events) :
       events[k].kind = "run" /\ events[k].module = "RealityCapture Alignment"
  \/ p_pc = "crashed"

\* C25: with Batch Directory and RealityCapture Alignment both enabled the
\* directory under which the batcher makes its zone folders is the one from
\* which the alignment module lists batch folders: every zone folder
\* written is queued for alignment.
C25_ZoneFoldersQueued ==
  (/\ {"Batch Directory", "RealityCapture Alignment"} \subseteq Range(enabled)
   /\ AlignmentRan) =>
    /\ dirs[batch_output_dir] # None
    /\ \A f \in dirs[batch_output_dir][1] : <<batch_output_dir, f>> \in queued

\* ---------------------------------------------------------------------
\* Properties of the batchers on invalid parameters and existing folders
\* ---------------------------------------------------------------------
\* C22: batch_files called with an empty file list, batch_size < 1 or
\* overlap_percent outside [0, 100], and the zone batcher with zone count
\* < 1 or overlap outside [0, 100], fail before any batch directory is
\* created, any file is copied or any manifest is written.
C22_InvalidParametersLeaveOutput ==
  /\ (/\ b_pc # "idle"
      /\ (files = <<>> \/ batch_size < 1 \/ overlap_percent < 0 \/ overlap_percent > 100)) =>
       /\ b_pc \in {"call", "raised"}
       /\ batches = <<>>
       /\ batch_flight_logs = <<>>
       /\ \A k \in 1..Len(batch_dirs) : batch_dirs[k] = OldBatchDir
  /\ (/\ z_pc # "idle"
      /\ (num_zones < 1 \/ zone_overlap < 0 \/ zone_overlap > 100)) =>
       /\ z_pc \in {"validate", "failed"}
       /\ ~out_dir
       /\ proposals = <<>>
       /\ final_zones = <<>>
       /\ zone_folders = <<>>

C22_Witness ==
  /\ b_pc = "raised"
  /\ files # <<>>
  /\ batch_size >= 1
  /\ overlap_percent > 100
  /\ flight_log_file.isfile
  /\ batch_dirs = <<OldBatchDir>>

\* C23: when a batch folder exists and the operator declines to overwrite
\* it, the folder's images and its flight_log.txt are left unchanged and
\* the batch is not reported as created.
C23_DeclinedFolderUntouched ==
  \A k \in 1..Len(batch_dirs) :
    batch_dirs[k].declined =>
      /\ batch_dirs[k].files = OldBatchDir.files
      /\ batch_dirs[k].flight_log = OldBatchDir.flight_log
      /\ Len(batches) < k

\* ---------------------------------------------------------------------
\* Properties of get_image_files
\* ---------------------------------------------------------------------
\* C24: get_image_files returns exactly the entries of the directory whose
\* extension is .png, .jpg or .jpeg: no entry with another extension is in
\* the list and no image entry is missing, also for listings with two or
\* more non-image entries in a row.
C24_OnlyImagesReturned ==
  (m_pc = "returned" /\ m_out.op = "get_image_files") =>
    Range(m_out.res.val) = {f \in Range(listing) : f.ext \in ImageExtensions}

====
